---- MODULE Spec2Model ----
(***************************************************************************)
(* Order-lifecycle engine of the market-making bot: the order book builder *)
(* (src/trade/tradeParams_atomars.js), the operator commands that gate it  *)
(* and the y-confirmation of the command router (src/unnamed/part_000).    *)
(*                                                                         *)
(* Prices are integers counted in price ticks (precision = 1 tick).  Time  *)
(* is measured from the present: the clock always reads 0 and the passing  *)
(* of one unit of time moves every stored time stamp one unit into the     *)
(* past.  Every `await` of the source is a step boundary.                  *)
(***************************************************************************)
EXTENDS Integers, Sequences, FiniteSets, TLC

\* ------------------------------------------------------------------ bounds
MaxChains == 2
MaxOrders == 2
MaxToPlace == 2
MaxCount == 2
MaxPrice == 3
MaxLifeTime == 1
MaxListLen == 3
OrderBookHeight == 2
MaxHandlers == 2
MaxExecuted == 2
MaxRequests == 2
MaxParams == 3
MaxAmount == 1
MaxLow == 2
MaxDepth == 2
MaxBookPrice == 6

\* ------------------------------------------------------- program constants
MAX_ORDERS_PER_ITERATION == 5
precision == 1
\* 1000 * 60 * 10 ms, counted in minutes
timeToConfirm == 10
\* the number of equal cells a uniform draw is taken from
RandomCells == 100

Chains == 1..MaxChains
Prices == 1..MaxPrice
Types == {"buy", "sell"}
MM_POLICIES == {"optimal", "spread", "depth"}
MM_POLICIES_REGULAR == {"optimal", "spread"}
PW_POLICIES == {"smart", "strict"}
\* the bands the watcher may publish: [low, low + 1] inside the prices of
\* the order book; BandsFar adds a band well above them
Bands == {<<l, l + 1>> : l \in 2..(MaxPrice - 1)}
BandsFar == Bands \cup {<<MaxPrice + 2, MaxPrice + 3>>}
Handlers == 1..MaxHandlers
\* "A": the router with the async y (part_000 lines 1-2978),
\* "B": the router with the synchronous y (part_000 lines 2980-4448)
Dialects == {"A", "B"}
\* the exchange adapters: src/trade/trader_dextrade.js, the trader of
\* src/trade/api/bitkub_api.js and the trader of part_000 lines 4449-5143
Adapters == {"dextrade", "bitkub", "bitqik"}

VARIABLES
  tradeParams,                  \* the shared parameter record
  isPreviousIterationFinished,  \* re-entrancy guard of the builder
  chain,                        \* one entry per run() call: its iteration loop
  ordersDb,                     \* the ledger: sequence of ob-order rows, id = index
  pw,                           \* what the price watcher publishes
  survived,                     \* per order: ticks survived while out of Pw range
  dialect,                      \* which of the two command routers is deployed
  pendingConfirmation,          \* the command waiting for y
  handler,                      \* the command handlers in flight
  executed,                     \* executions of the pending command since it was set
  savedConfig,                  \* what utils.saveConfig wrote last, and whether the
                                \* processing of y itself ever called it
  adapter,                      \* the exchange adapter: its markets cache and its last call
  lastCommand                   \* the clear or fill command the operator sent last: its
                                \* arguments, its reply and what it did

routerVars == <<dialect, pendingConfirmation, handler, executed>>

vars == <<tradeParams, isPreviousIterationFinished, chain, ordersDb, pw, survived, routerVars,
          savedConfig, adapter, lastCommand>>

\* ----------------------------------------------------------------- helpers
Min(a, b) == IF a < b THEN a ELSE b

NoPw == [enabled |-> FALSE, policy |-> "smart", isActual |-> FALSE,
         isAnomaly |-> FALSE, low |-> 0, high |-> 0]

IdleChain(p) ==
  [pc |-> p, orderBookOrders |-> <<>>, idx |-> 0, updatedObOrders |-> <<>>,
   reasonToClose |-> "", ordersToPlace |-> 0, orderBookOrdersCount |-> 0,
   type |-> "", price |-> 0, lifeTime |-> 0, seen |-> NoPw,
   attempted |-> {}, expiredAtStart |-> {}, unprocessed |-> {}, failed |-> FALSE,
   limitRead |-> 0]

BuildPcs == {"find", "update", "close", "cancel", "loop", "orderBook", "balances", "placeOrder"}

InBuild(c) == chain[c].pc \in BuildPcs

\* a ledger row after it was closed: nothing but isProcessed is read again
ClosedRow == [price |-> 0, dateTill |-> 0, isProcessed |-> TRUE]

\* utils.unixTimeStampMs(): the present is the origin of time
unixTimeStampMs == 0

\* time stamps older than this are all alike to the program
Oldest == 0 - 1

OpenIds == {i \in 1..Len(ordersDb) : ~ordersDb[i].isProcessed}

ExpiredIds == {i \in OpenIds : ordersDb[i].dateTill < unixTimeStampMs}

\* ids of a set as an ascending sequence (ordersDb.find returns rows in id order)
RECURSIVE SeqOfIds(_, _)
SeqOfIds(S, from) ==
  IF from > Len(ordersDb) THEN <<>>
  ELSE IF from \in S THEN <<from>> \o SeqOfIds(S, from + 1)
       ELSE SeqOfIds(S, from + 1)

RECURSIVE FilterOut(_, _)
FilterOut(s, S) ==
  IF s = <<>> THEN <<>>
  ELSE IF Head(s) \in S THEN FilterOut(Tail(s), S)
       ELSE <<Head(s)>> \o FilterOut(Tail(s), S)

SeqRange(s) == {s[i] : i \in 1..Len(s)}

\* utils.randomValue(low, high): a value between the two bounds
randomValue(low, high) == IF low <= high THEN low..high ELSE high..low

\* integers p with a/100 <= p <= b/100 (or b/100 <= p <= a/100)
randomValue100(a, b) ==
  {p \in 0..(2 * MaxPrice) :
     IF a <= b THEN a <= 100 * p /\ 100 * p <= b
               ELSE b <= 100 * p /\ 100 * p <= a}

\* ----------------------------------------------------------- price watcher
getIsPriceWatcherEnabled == tradeParams.mm_isPriceWatcherActive
getIsPriceAnomaly == pw.isAnomaly
getIsPriceActual == pw.isActual
getIgnorePriceNotActual == tradeParams.mm_priceWatcherSourcePolicy = "smart"
getLowPrice == pw.low
getHighPrice == pw.high

\* what setPrice reads from the watcher: the flags and, when the range is
\* used, pwLowPrice and pwHighPrice
PwView ==
  IF ~getIsPriceWatcherEnabled THEN NoPw
  ELSE LET usePw == ~getIsPriceAnomaly /\ getIsPriceActual IN
       [enabled |-> TRUE, policy |-> tradeParams.mm_priceWatcherSourcePolicy,
        isActual |-> getIsPriceActual, isAnomaly |-> getIsPriceAnomaly,
        low |-> IF usePw THEN getLowPrice ELSE 0,
        high |-> IF usePw THEN getHighPrice ELSE 0]

isOrderOutOfPriceWatcherRange(order) ==
  /\ getIsPriceWatcherEnabled
  /\ getIsPriceActual
  /\ (order.price < getLowPrice \/ order.price > getHighPrice)

\* ------------------------------------------------------------ order prices
\* orderList.filter(...): drop every entry whose price occurred earlier
RECURSIVE RemoveDuplicates(_, _)
RemoveDuplicates(s, seenPrices) ==
  IF s = <<>> THEN <<>>
  ELSE IF Head(s) \in seenPrices THEN RemoveDuplicates(Tail(s), seenPrices)
       ELSE <<Head(s)>> \o RemoveDuplicates(Tail(s), seenPrices \cup {Head(s)})

\* one side of an order book as the exchange returns it: asks ascending,
\* bids descending, equal prices allowed, possibly empty
IsSorted(type, s) ==
  \A i \in 1..(Len(s) - 1) :
    IF type = "sell" THEN s[i] <= s[i + 1] ELSE s[i] >= s[i + 1]

OrderLists(type) ==
  {s \in UNION {[1..n -> Prices] : n \in 0..MaxListLen} : IsSorted(type, s)}

setPosition(orderCount) ==
  randomValue(2, Min(orderCount, tradeParams.mm_orderBookHeight))

\* the gap [low, high] setPrice draws the price from
PriceGap(type, position0, orderList) ==
  LET position == IF Len(orderList) < position0 THEN Len(orderList) ELSE position0
      low0  == IF type = "sell" THEN orderList[position - 1] ELSE orderList[position]
      high0 == IF type = "sell" THEN orderList[position] ELSE orderList[position - 1]
      low1  == IF low0 + precision < high0 THEN low0 + precision ELSE low0
      high1 == IF high0 - precision > low1 THEN high0 - precision ELSE high0
  IN  <<low1, high1>>

\* orderList[tradeParams.mm_orderBookHeight]?.price (0-based index), 0 = undefined
VisiblePrice(orderList) ==
  IF Len(orderList) >= tradeParams.mm_orderBookHeight + 1
  THEN orderList[tradeParams.mm_orderBookHeight + 1] ELSE 0

\* the correction of a price by the Pw bounds; 0 stands for NaN/undefined
PwCorrection(type, price, orderList, pwLowPrice, pwHighPrice) ==
  LET visible == VisiblePrice(orderList) IN
  IF type = "sell"
  THEN IF pwLowPrice # 0 /\ price < pwLowPrice
       THEN IF visible = 0 THEN {0}
            ELSE IF pwLowPrice < visible
                 THEN randomValue(pwLowPrice, visible)
                 ELSE randomValue100(100 * pwLowPrice, 105 * visible)
       ELSE {price}
  ELSE IF pwHighPrice # 0 /\ price > pwHighPrice
       THEN IF visible # 0 /\ visible < pwHighPrice
            THEN randomValue(visible, pwHighPrice)
            ELSE randomValue100(95 * pwHighPrice, 100 * pwHighPrice)
       ELSE {price}

\* PwBlocks that skips the order on an anomaly only
PwBlocksAnomalyOnly ==
  /\ getIsPriceWatcherEnabled
  /\ getIsPriceAnomaly

\* Does setPrice skip the order because of what the watcher reports?
PwBlocks ==
  /\ getIsPriceWatcherEnabled
  /\ \/ getIsPriceAnomaly
     \/ ~getIsPriceActual /\ ~getIgnorePriceNotActual

\* setPrice(type, position, orderList): the prices it may return, 0 = undefined
setPrice(type, position, orderList) ==
  LET gap == PriceGap(type, position, orderList)
      usePw == getIsPriceWatcherEnabled /\ ~getIsPriceAnomaly /\ getIsPriceActual
      pwLowPrice == IF usePw THEN getLowPrice ELSE 0
      pwHighPrice == IF usePw THEN getHighPrice ELSE 0
  IN  IF PwBlocks THEN {0}
      ELSE UNION {PwCorrection(type, p, orderList, pwLowPrice, pwHighPrice) :
                    p \in randomValue(gap[1], gap[2])}

\* Math.random() is uniform on [0, 1): the unit interval is cut into
\* RandomCells cells of equal weight and a draw is the middle of its cell,
\* (2 * random + 1) / (2 * RandomCells)
MathRandom == 0..(RandomCells - 1)

\* setType that buys when the draw is below mm_buyPercent
setTypeBelow(random) ==
  IF tradeParams.mm_buyPercent = 0 THEN "false"
  ELSE IF (2 * random + 1) * 50 < RandomCells * tradeParams.mm_buyPercent
       THEN "buy" ELSE "sell"

\* setType(): mm_buyPercent is kept in hundredths; "false" is the value false
setType(random) ==
  IF tradeParams.mm_buyPercent = 0 THEN "false"
  ELSE IF (2 * random + 1) * 50 > RandomCells * tradeParams.mm_buyPercent
       THEN "buy" ELSE "sell"

\* --------------------------------------------------------------- scheduler
\* the gate of iteration() without the check of the policy
IterationGateAnyPolicy ==
  /\ tradeParams.mm_isActive
  /\ tradeParams.mm_isOrderBookActive

\* the gate of iteration(): setPause() is always positive
IterationGate ==
  /\ tradeParams.mm_isActive
  /\ tradeParams.mm_isOrderBookActive
  /\ tradeParams.mm_Policy \in MM_POLICIES_REGULAR

\* iteration() without the re-entrancy guard
iterationNoGuard(c) ==
  IF IterationGate
  THEN /\ isPreviousIterationFinished' = FALSE
       /\ chain' = [chain EXCEPT ![c] = [IdleChain("find") EXCEPT !.expiredAtStart = ExpiredIds]]
  ELSE /\ chain' = [chain EXCEPT ![c] = IdleChain("timer")]
       /\ UNCHANGED isPreviousIterationFinished

\* one call of iteration() by chain c
iteration(c) ==
  IF IterationGate /\ isPreviousIterationFinished
  THEN /\ isPreviousIterationFinished' = FALSE
       /\ chain' = [chain EXCEPT ![c] = [IdleChain("find") EXCEPT !.expiredAtStart = ExpiredIds]]
  ELSE /\ chain' = [chain EXCEPT ![c] = IdleChain("timer")]
       /\ UNCHANGED isPreviousIterationFinished

\* run(): the first call of iteration()
Run(c) ==
  /\ chain[c].pc = "none"
  /\ iteration(c)
  /\ UNCHANGED <<tradeParams, ordersDb, pw, survived, routerVars, savedConfig, adapter, lastCommand>>

\* the setTimeout callback of the previous iteration() fires
TimerFires(c) ==
  /\ chain[c].pc = "timer"
  /\ iteration(c)
  /\ UNCHANGED <<tradeParams, ordersDb, pw, survived, routerVars, savedConfig, adapter, lastCommand>>

\* buildOrderBook returns (normally or through its catch) and iteration()
\* releases the guard and schedules the next call
EndBuild(c) ==
  /\ isPreviousIterationFinished' = TRUE
  /\ chain' = [chain EXCEPT ![c] = IdleChain("timer")]

\* ----------------------------------------------------------- buildOrderBook
\* ordersDb.find({isProcessed: false, purpose: 'ob'}) resolves
FindReturns(c) ==
  /\ chain[c].pc = "find"
  /\ chain' = [chain EXCEPT ![c].pc = "update",
                            ![c].orderBookOrders = SeqOfIds(OpenIds, 1)]
  /\ UNCHANGED <<tradeParams, isPreviousIterationFinished, ordersDb, pw, survived, routerVars, savedConfig, adapter, lastCommand>>

\* BuildThrows with the rejection passed on to iteration(): the guard stays
\* taken and no timer is set
BuildThrowsPropagates(c) ==
  /\ chain[c].pc \in {"find", "update"}
  /\ chain' = [chain EXCEPT ![c] = IdleChain("stopped")]
  /\ UNCHANGED <<tradeParams, isPreviousIterationFinished, ordersDb, pw, survived, routerVars, savedConfig, adapter, lastCommand>>

\* ordersDb.find or orderUtils.updateOrders rejects: caught by buildOrderBook
BuildThrows(c) ==
  /\ chain[c].pc \in {"find", "update"}
  /\ EndBuild(c)
  /\ UNCHANGED <<tradeParams, ordersDb, pw, survived, routerVars, savedConfig, adapter, lastCommand>>

\* orderUtils.updateOrders resolves: rows found filled or cancelled on the
\* exchange are closed and leave the list
UpdateOrders(c) ==
  /\ chain[c].pc = "update"
  /\ \E closed \in SUBSET SeqRange(chain[c].orderBookOrders) :
       /\ ordersDb' = [i \in 1..Len(ordersDb) |->
                         IF i \in closed THEN ClosedRow
                         ELSE ordersDb[i]]
       /\ chain' = [chain EXCEPT ![c].pc = "close", ![c].idx = 1,
                                 ![c].orderBookOrders = FilterOut(chain[c].orderBookOrders, closed)]
       /\ survived' = [i \in DOMAIN survived |-> IF i \in closed THEN 0 ELSE survived[i]]
  /\ UNCHANGED <<tradeParams, isPreviousIterationFinished, pw, routerVars, savedConfig, adapter, lastCommand>>

\* --------------------------------------------------- closeOrderBookOrders
\* ReasonToClose without the test of dateTill
ReasonToCloseNoExpiry(order) ==
  IF isOrderOutOfPriceWatcherRange(order) THEN "outOfPwRange"
  ELSE ""

\* ReasonToClose without the test of the Pw range
ReasonToCloseNoPw(order) ==
  IF order.dateTill < unixTimeStampMs THEN "expired"
  ELSE ""

\* reasonToClose as the for loop of closeOrderBookOrders sets it
ReasonToClose(order) ==
  IF order.dateTill < unixTimeStampMs THEN "expired"
  ELSE IF isOrderOutOfPriceWatcherRange(order) THEN "outOfPwRange"
  ELSE ""

\* one pass of the for loop up to the call of orderCollector.clearOrderById
CloseExamine(c) ==
  /\ chain[c].pc = "close"
  /\ chain[c].idx <= Len(chain[c].orderBookOrders)
  /\ LET id == chain[c].orderBookOrders[chain[c].idx]
         reason == ReasonToClose(ordersDb[id])
     IN  IF reason # ""
         THEN chain' = [chain EXCEPT ![c].pc = "cancel", ![c].reasonToClose = reason,
                                     ![c].attempted = @ \cup {id}]
         ELSE chain' = [chain EXCEPT ![c].idx = @ + 1,
                                     ![c].updatedObOrders = Append(@, id)]
  /\ UNCHANGED <<tradeParams, isPreviousIterationFinished, ordersDb, pw, survived, routerVars, savedConfig, adapter, lastCommand>>

CancelOutcomes == {"processed", "notProcessed", "throws"}

\* CancelResult that keeps no order whose cancellation was requested
CancelResultDropsOrder(c) ==
  /\ chain[c].pc = "cancel"
  /\ LET id == chain[c].orderBookOrders[chain[c].idx] IN
     \E outcome \in CancelOutcomes :
       /\ ordersDb' = IF outcome = "processed"
                      THEN [ordersDb EXCEPT ![id] = ClosedRow]
                      ELSE ordersDb
       /\ chain' = [chain EXCEPT ![c].pc = "close", ![c].idx = @ + 1,
                                 ![c].reasonToClose = "",
                                 ![c].unprocessed =
                                    IF outcome = "notProcessed" THEN @ \cup {id} ELSE @]
       /\ survived' = [survived EXCEPT ![id] = 0]
  /\ UNCHANGED <<tradeParams, isPreviousIterationFinished, pw, routerVars, savedConfig, adapter, lastCommand>>

\* orderCollector.clearOrderById settles
CancelResult(c) ==
  /\ chain[c].pc = "cancel"
  /\ LET id == chain[c].orderBookOrders[chain[c].idx] IN
     \E outcome \in CancelOutcomes :
       /\ ordersDb' = IF outcome = "processed"
                      THEN [ordersDb EXCEPT ![id] = ClosedRow]
                      ELSE ordersDb
       /\ chain' = [chain EXCEPT ![c].pc = "close", ![c].idx = @ + 1,
                                 ![c].reasonToClose = "",
                                 ![c].unprocessed =
                                    IF outcome = "notProcessed" THEN @ \cup {id} ELSE @,
                                 ![c].updatedObOrders =
                                    IF outcome = "notProcessed" THEN Append(@, id) ELSE @]
       /\ survived' = [survived EXCEPT ![id] =
                         IF /\ outcome # "processed"
                            /\ chain[c].reasonToClose = "outOfPwRange"
                            /\ isOrderOutOfPriceWatcherRange(ordersDb[id])
                            /\ tradeParams.mm_priceWatcherSourcePolicy = "strict"
                         THEN Min(2, @ + 1) ELSE 0]
  /\ UNCHANGED <<tradeParams, isPreviousIterationFinished, pw, routerVars, savedConfig, adapter, lastCommand>>

\* closeOrderBookOrders returns; buildOrderBook draws ordersToPlace
CloseDone(c) ==
  /\ chain[c].pc = "close"
  /\ chain[c].idx > Len(chain[c].orderBookOrders)
  /\ \E n \in randomValue(1, Min(MAX_ORDERS_PER_ITERATION, MaxToPlace)) :
       chain' = [chain EXCEPT ![c].pc = "loop", ![c].idx = 0,
                              ![c].attempted = {}, ![c].expiredAtStart = {},
                              ![c].unprocessed = {},
                              ![c].updatedObOrders = <<>>,
                              ![c].orderBookOrders = chain[c].updatedObOrders,
                              ![c].ordersToPlace = n,
                              ![c].orderBookOrdersCount = Len(chain[c].updatedObOrders)]
  /\ UNCHANGED <<tradeParams, isPreviousIterationFinished, ordersDb, pw, survived, routerVars, savedConfig, adapter, lastCommand>>

\* the condition of the while loop
MorePlacements(c) ==
  /\ chain[c].ordersToPlace > 0
  /\ chain[c].orderBookOrdersCount < tradeParams.mm_orderBookOrdersCount

\* while-loop body up to the first await of placeOrderBookOrder
StartPlacement(c) ==
  /\ chain[c].pc = "loop"
  /\ MorePlacements(c)
  /\ \E random \in MathRandom :
       chain' = [chain EXCEPT ![c].pc = "orderBook", ![c].type = setType(random),
                              ![c].ordersToPlace = @ - 1,
                              ![c].limitRead = IF @ = 0
                                               THEN tradeParams.mm_orderBookOrdersCount
                                               ELSE @]
  /\ UNCHANGED <<tradeParams, isPreviousIterationFinished, ordersDb, pw, survived, routerVars, savedConfig, adapter, lastCommand>>

\* the while loop ends and buildOrderBook returns
FinishBuild(c) ==
  /\ chain[c].pc = "loop"
  /\ ~MorePlacements(c)
  /\ EndBuild(c)
  /\ UNCHANGED <<tradeParams, ordersDb, pw, survived, routerVars, savedConfig, adapter, lastCommand>>

\* ------------------------------------------------------ placeOrderBookOrder
\* placeOrderBookOrder returns undefined
PlacementAbandoned(c) ==
  [chain EXCEPT ![c].pc = "loop", ![c].type = "", ![c].price = 0,
                ![c].lifeTime = 0, ![c].seen = NoPw]

\* getOrderBookCached resolves; position, price and life time are set
OrderBookReturns(c) ==
  /\ chain[c].pc = "orderBook"
  /\ \E raw \in OrderLists(IF chain[c].type = "buy" THEN "buy" ELSE "sell") :
       LET orderList == RemoveDuplicates(raw, {}) IN
       IF Len(orderList) < 2 \/ chain[c].type = "false"
       THEN chain' = PlacementAbandoned(c)
       ELSE \E position \in setPosition(Len(orderList)) :
            \E price \in setPrice(chain[c].type, position, orderList) :
            \E lifeTime \in 1..MaxLifeTime :
              IF price = 0
              THEN chain' = PlacementAbandoned(c)
              ELSE chain' = [chain EXCEPT ![c].pc = "balances", ![c].price = price,
                                          ![c].type = "",
                                          ![c].lifeTime = lifeTime, ![c].seen = PwView]
  /\ UNCHANGED <<tradeParams, isPreviousIterationFinished, ordersDb, pw, survived, routerVars, savedConfig, adapter, lastCommand>>

\* isEnoughCoins resolves; with enough coins traderapi.placeOrder is called
BalancesReturn(c) ==
  /\ chain[c].pc = "balances"
  /\ \E enough \in BOOLEAN :
       chain' = IF enough THEN [chain EXCEPT ![c].pc = "placeOrder"]
                ELSE PlacementAbandoned(c)
  /\ UNCHANGED <<tradeParams, isPreviousIterationFinished, ordersDb, pw, survived, routerVars, savedConfig, adapter, lastCommand>>

\* traderapi.placeOrder resolves with an order id: the row is saved
PlaceOrderAccepted(c) ==
  /\ chain[c].pc = "placeOrder"
  /\ Len(ordersDb) < MaxOrders
  /\ ordersDb' = Append(ordersDb, [price |-> chain[c].price,
                                   dateTill |-> unixTimeStampMs + chain[c].lifeTime,
                                   isProcessed |-> FALSE])
  /\ chain' = [PlacementAbandoned(c) EXCEPT ![c].orderBookOrdersCount = @ + 1]
  /\ UNCHANGED <<tradeParams, isPreviousIterationFinished, pw, survived, routerVars, savedConfig, adapter, lastCommand>>

\* PlaceOrderFailed that saves a row all the same
PlaceOrderFailedWritesRow(c) ==
  /\ chain[c].pc = "placeOrder"
  /\ Len(ordersDb) < MaxOrders
  /\ ordersDb' = Append(ordersDb, [price |-> chain[c].price,
                                   dateTill |-> unixTimeStampMs + chain[c].lifeTime,
                                   isProcessed |-> FALSE])
  /\ chain' = [PlacementAbandoned(c) EXCEPT ![c].failed = TRUE]
  /\ UNCHANGED <<tradeParams, isPreviousIterationFinished, pw, survived, routerVars, savedConfig, adapter, lastCommand>>

\* traderapi.placeOrder resolves without an order id, or rejects
PlaceOrderFailed(c) ==
  /\ chain[c].pc = "placeOrder"
  /\ chain' = [PlacementAbandoned(c) EXCEPT ![c].failed = TRUE]
  /\ UNCHANGED <<tradeParams, isPreviousIterationFinished, ordersDb, pw, survived, routerVars, savedConfig, adapter, lastCommand>>

\* ------------------------------------------------------- operator commands
\* utils.saveConfig() at the end of module.exports: tradeParams is written out
saveConfig(isY) ==
  savedConfig' = [tradeParams |-> tradeParams', byY |-> savedConfig.byY \/ isY]

\* start mm [policy]
start(newPolicy) ==
  /\ newPolicy \in MM_POLICIES
  /\ tradeParams' = [tradeParams EXCEPT !.mm_isActive = TRUE, !.mm_Policy = newPolicy]
  /\ UNCHANGED <<isPreviousIterationFinished, chain, ordersDb, pw, survived, routerVars, adapter, lastCommand>>
  /\ saveConfig(FALSE)


\* stop mm that also aborts the ticks in flight
stopCancelsTick ==
  /\ tradeParams' = [tradeParams EXCEPT !.mm_isActive = FALSE]
  /\ chain' = [c \in Chains |-> IF InBuild(c) THEN IdleChain("timer") ELSE chain[c]]
  /\ isPreviousIterationFinished' = TRUE
  /\ UNCHANGED <<ordersDb, pw, survived, routerVars, adapter, lastCommand>>
  /\ saveConfig(FALSE)


\* stop mm
stop ==
  /\ tradeParams' = [tradeParams EXCEPT !.mm_isActive = FALSE]
  /\ UNCHANGED <<isPreviousIterationFinished, chain, ordersDb, pw, survived, routerVars, adapter, lastCommand>>
  /\ saveConfig(FALSE)


\* enable ob <count>
enableOb(orderBookOrdersCount) ==
  /\ orderBookOrdersCount > 0
  /\ tradeParams' = [tradeParams EXCEPT !.mm_orderBookOrdersCount = orderBookOrdersCount,
                                        !.mm_isOrderBookActive = TRUE]
  /\ UNCHANGED <<isPreviousIterationFinished, chain, ordersDb, pw, survived, routerVars, adapter, lastCommand>>
  /\ saveConfig(FALSE)


\* disable ob
disableOb ==
  /\ tradeParams' = [tradeParams EXCEPT !.mm_isOrderBookActive = FALSE]
  /\ UNCHANGED <<isPreviousIterationFinished, chain, ordersDb, pw, survived, routerVars, adapter, lastCommand>>
  /\ saveConfig(FALSE)


\* enable pw ... -y: pair@exchange sources carry a policy, numeric ranges none
enablePw(pwSourcePolicy) ==
  /\ pw' = [pw EXCEPT !.isActual = FALSE]
  /\ tradeParams' = [tradeParams EXCEPT !.mm_isPriceWatcherActive = TRUE,
                                        !.mm_priceWatcherSourcePolicy = pwSourcePolicy]
  /\ survived' = [i \in DOMAIN survived |-> 0]
  /\ UNCHANGED <<isPreviousIterationFinished, chain, ordersDb, routerVars, adapter, lastCommand>>
  /\ saveConfig(FALSE)


\* disable pw
disablePw ==
  /\ tradeParams' = [tradeParams EXCEPT !.mm_isPriceWatcherActive = FALSE]
  /\ survived' = [i \in DOMAIN survived |-> 0]
  /\ UNCHANGED <<isPreviousIterationFinished, chain, ordersDb, pw, routerVars, adapter, lastCommand>>
  /\ saveConfig(FALSE)


\* ------------------------------------------------------------- environment
\* a tick of the price watcher publishes {low, high, isActual, isPriceAnomaly}
PwPublishes(bands) ==
  /\ tradeParams.mm_isPriceWatcherActive
  /\ \E band \in bands : \E actual \in BOOLEAN : \E anomaly \in BOOLEAN :
       pw' = [isActual |-> actual, isAnomaly |-> anomaly,
              low |-> band[1], high |-> band[2]]
  /\ pw' # pw
  /\ survived' = [i \in DOMAIN survived |-> 0]
  /\ UNCHANGED <<tradeParams, isPreviousIterationFinished, chain, ordersDb, routerVars, savedConfig, adapter, lastCommand>>

\* one unit of time passes: every time stamp is one unit older
Older(t) == IF t - 1 < Oldest THEN Oldest ELSE t - 1

TimePasses ==
  /\ ordersDb' = [i \in 1..Len(ordersDb) |->
                    IF ordersDb[i].isProcessed THEN ordersDb[i]
                    ELSE [ordersDb[i] EXCEPT !.dateTill = Older(@)]]
  /\ ordersDb' # ordersDb
  /\ UNCHANGED <<tradeParams, isPreviousIterationFinished, chain, pw, survived, routerVars, savedConfig, adapter, lastCommand>>

\* ------------------------------------------------------------ confirmation
IdleHandler == [pc |-> "idle", command |-> ""]

\* the commands that ask for a confirmation
Confirmable == IF dialect = "A" THEN {"make", "fill"} ELSE {"make"}

\* Expired for a prompt that never expires
ExpiredNever == FALSE

\* time stamps of the router are counted in minutes before the present
Expired == unixTimeStampMs - pendingConfirmation.timestamp > timeToConfirm

\* setPendingConfirmation(command)
setPendingConfirmation(command) ==
  pendingConfirmation' = [command |-> command, params |-> <<>>,
                          timestamp |-> unixTimeStampMs]

\* a command typed without -y asks for a confirmation and becomes pending
AskConfirmation(command) ==
  /\ command \in Confirmable
  /\ \A h \in Handlers : handler[h] = IdleHandler
  /\ setPendingConfirmation(command)
  /\ executed' = 0
  /\ UNCHANGED <<dialect, handler>>
  /\ UNCHANGED <<tradeParams, isPreviousIterationFinished, chain, ordersDb, pw, survived, adapter, lastCommand>>
  /\ saveConfig(FALSE)

\* y of router A up to its await: nothing pending, expired, or the re-run starts
yAsync(h) ==
  /\ dialect = "A"
  /\ handler[h] = IdleHandler
  /\ pendingConfirmation.command # ""
  /\ IF Expired
     THEN /\ pendingConfirmation' = [pendingConfirmation EXCEPT !.command = ""]
          /\ UNCHANGED handler
     ELSE /\ handler' = [handler EXCEPT ![h] =
                           [pc |-> "rerun", command |-> pendingConfirmation.command]]
          /\ UNCHANGED pendingConfirmation
  /\ UNCHANGED <<dialect, executed>>
  /\ UNCHANGED <<tradeParams, isPreviousIterationFinished, chain, ordersDb, pw, survived,
               savedConfig, adapter, lastCommand>>

\* y of router B: it starts the re-run of a command that is pending and not
\* expired, and returns; pendingConfirmation.command is cleared only behind
\* the return statements; module.exports ends with saveConfig()
ySync(h) ==
  /\ dialect = "B"
  /\ handler[h] = IdleHandler
  /\ handler' = IF pendingConfirmation.command # "" /\ ~Expired
                THEN [handler EXCEPT ![h] =
                        [pc |-> "rerun", command |-> pendingConfirmation.command]]
                ELSE handler
  /\ UNCHANGED <<dialect, pendingConfirmation, executed>>
  /\ UNCHANGED <<tradeParams, isPreviousIterationFinished, chain, ordersDb, pw, survived, adapter, lastCommand>>
  /\ saveConfig(TRUE)

\* the command re-run with -y passes its awaits (rates, order book) and sends
\* its order: the pending command is executed
RerunExecutes(h) ==
  /\ handler[h].pc = "rerun"
  /\ handler' = [handler EXCEPT ![h].pc = "placed"]
  /\ executed' = Min(executed + 1, MaxExecuted)
  /\ UNCHANGED <<dialect, pendingConfirmation>>
  /\ UNCHANGED <<tradeParams, isPreviousIterationFinished, chain, ordersDb, pw, survived,
               savedConfig, adapter, lastCommand>>

\* the re-run returns, after its order or early (rates not available, wrong
\* arguments).  Router A: make registers itself again on the way out, then y
\* clears pendingConfirmation.command.  Router B: nothing is cleared.
RerunReturns(h) ==
  /\ handler[h].pc \in {"rerun", "placed"}
  /\ handler' = [handler EXCEPT ![h] = IdleHandler]
  /\ pendingConfirmation' =
       IF dialect = "A"
       THEN [command |-> "", params |-> <<>>,
             timestamp |-> IF handler[h].pc = "placed" /\ handler[h].command = "make"
                           THEN unixTimeStampMs ELSE pendingConfirmation.timestamp]
       ELSE pendingConfirmation
  /\ UNCHANGED <<dialect, executed>>
  /\ UNCHANGED <<tradeParams, isPreviousIterationFinished, chain, ordersDb, pw, survived, adapter, lastCommand>>
  /\ saveConfig(FALSE)

\* a minute passes
OlderMinute(t) == IF t - 1 < 0 - (timeToConfirm + 1) THEN 0 - (timeToConfirm + 1) ELSE t - 1

MinutePasses ==
  /\ pendingConfirmation' = [pendingConfirmation EXCEPT !.timestamp = OlderMinute(@)]
  /\ pendingConfirmation' # pendingConfirmation
  /\ UNCHANGED <<dialect, handler, executed>>
  /\ UNCHANGED <<tradeParams, isPreviousIterationFinished, chain, ordersDb, pw, survived,
               savedConfig, adapter, lastCommand>>

\* more than timeToConfirm passes since the prompt was registered
PromptExpires ==
  /\ pendingConfirmation.command # ""
  /\ ~Expired
  /\ pendingConfirmation' =
       [pendingConfirmation EXCEPT !.timestamp = unixTimeStampMs - (timeToConfirm + 1)]
  /\ UNCHANGED <<dialect, handler, executed>>
  /\ UNCHANGED <<tradeParams, isPreviousIterationFinished, chain, ordersDb, pw, survived,
               savedConfig, adapter, lastCommand>>

\* ---------------------------------------------------------------- adapters
NoCall ==
  [op |-> "", input |-> "", listed |-> FALSE, output |-> "", sent |-> FALSE,
   descriptor |-> FALSE, symbol |-> <<>>]

\* the adapter after its module function ran: with loadMarket it has called
\* getMarkets() and the markets request is in flight
Constructed(names) ==
  {[name |-> n, exchangeMarkets |-> FALSE, gettingMarkets |-> TRUE,
    requests |-> 1, settled |-> 0, lastCall |-> NoCall] : n \in names}

\* every action of the adapter leaves the rest of the bot alone
AdapterOnly ==
  UNCHANGED <<tradeParams, isPreviousIterationFinished, chain, ordersDb, pw, survived,
              routerVars, savedConfig, lastCommand>>

\* handleResponse of the API client: how the request promise settles for an
\* HTTP code and an error code in the body
handleResponse(name, httpCode, bodyError) ==
  LET success == IF name = "bitqik" THEN httpCode = 200
                 ELSE httpCode = 200 /\ ~bodyError
  IN  IF success THEN "resolved"
      ELSE IF httpCode = 200 THEN "resolvedWithErrorInfo"
      ELSE "rejected"

\* ------------------------------------------------------------- getMarkets
\* getMarkets(pair) that starts a request although one is in flight
getMarketsNoFlag(a) ==
  IF ~a.exchangeMarkets
  THEN [a EXCEPT !.gettingMarkets = TRUE, !.requests = @ + 1]
  ELSE a

\* getMarkets(pair): the adapter after the call
getMarkets(a) ==
  IF ~a.gettingMarkets /\ ~a.exchangeMarkets
  THEN [a EXCEPT !.gettingMarkets = TRUE, !.requests = @ + 1]
  ELSE a

\* getMarkets(pair): what the call returns; listed: the cached map has the pair
getMarketsReturns(a, listed) ==
  IF a.gettingMarkets THEN "undefined"
  ELSE IF a.exchangeMarkets THEN (IF listed THEN "descriptor" ELSE "undefined")
  ELSE "promise"

\* the state of the markets cache a call finds
CacheState(a) ==
  IF a.exchangeMarkets THEN (IF a.gettingMarkets THEN "loadedNotFinished" ELSE "loaded")
  ELSE IF a.gettingMarkets THEN "loading" ELSE "notLoaded"

\* traderapi.marketInfo(pair) or getMarkets() called by the bot
MarketInfo ==
  /\ getMarkets(adapter).requests <= MaxRequests
  /\ \E listed \in BOOLEAN :
       adapter' = [getMarkets(adapter) EXCEPT !.lastCall =
                     [NoCall EXCEPT !.op = "marketInfo", !.input = CacheState(adapter),
                                    !.listed = listed,
                                    !.output = getMarketsReturns(adapter, listed)]]
  /\ AdapterOnly

\* the markets request settles: the then or the catch callback runs
MarketsRespond ==
  /\ adapter.requests > 0
  /\ adapter.settled < MaxRequests
  /\ \E answer \in {"markets", "empty", "fails"} :
       adapter' = [adapter EXCEPT !.requests = @ - 1, !.settled = @ + 1,
                                  !.exchangeMarkets = @ \/ answer = "markets"]
  /\ AdapterOnly

\* the finally callback of the markets request runs
MarketsFinally ==
  /\ adapter.settled > 0
  /\ adapter' = [adapter EXCEPT !.settled = @ - 1, !.gettingMarkets = FALSE]
  /\ AdapterOnly

\* -------------------------------------------------------------- placeOrder
\* what placeOrder holds in marketInfo
placeOrderMarketInfo(a, listed) ==
  IF a.name = "dextrade"
  THEN IF ~a.exchangeMarkets THEN "throws"
       ELSE IF listed THEN "descriptor" ELSE "undefined"
  ELSE getMarketsReturns(a, listed)

\* placeOrder(side, pair, price, coin1Amount, limit, coin2Amount)
placeOrder ==
  /\ \E listed \in BOOLEAN : \E amountsOk \in BOOLEAN :
     \E answer \in {"orderId", "error", "fails"} :
    LET marketInfo == placeOrderMarketInfo(adapter, listed)
        after == IF adapter.name = "dextrade" THEN adapter ELSE getMarkets(adapter)
        sends == marketInfo \in {"descriptor", "promise"} /\ amountsOk
        result == [NoCall EXCEPT
                     !.op = "placeOrder",
                     !.input = CacheState(adapter),
                     !.listed = listed,
                     !.sent = sends,
                     !.descriptor = (marketInfo = "descriptor"),
                     !.output = IF marketInfo = "throws" THEN "throws"
                                ELSE IF sends /\ answer = "orderId" THEN "orderId"
                                ELSE "message"]
    IN  /\ after.requests <= MaxRequests
        /\ adapter' = [after EXCEPT !.lastCall = result]
  /\ AdapterOnly

\* ------------------------------------------------------------- cancelOrder
\* what the order-handling code passes: strings as their parts between "/"
Pair == <<"btc", "usdt">>

toUpperCase(word) ==
  CASE word = "btc" -> "BTC"
    [] word = "usdt" -> "USDT"
    [] word = "buy" -> "BUY"
    [] word = "sell" -> "SELL"

\* formatPairName(pair): coin1, coin2 and the symbol the client sends
formatPairName(name, text) ==
  LET coin1 == toUpperCase(text[1])
      coin2 == IF Len(text) >= 2 THEN toUpperCase(text[2]) ELSE "undefined"
  IN  [coin1 |-> coin1, coin2 |-> coin2,
       symbol |-> IF name = "bitqik" THEN <<coin1, "-", coin2>> ELSE <<coin1, coin2>>]

\* the argument that arrives in the parameter pair of cancelOrder
cancelOrderPair(name, args) ==
  IF name = "bitqik" THEN args[2] ELSE args[3]

\* the answer of cancelOrder for a settled request and the body it carries
cancelOrderResult(name, settles, state, clientOrderId) ==
  IF settles = "rejected" THEN "undefined"
  ELSE IF name = "bitqik"
       THEN IF state = "CANCELED" /\ clientOrderId THEN "true" ELSE "false"
       ELSE IF settles = "resolved" THEN "true" ELSE "false"

\* cancelOrder called as cancelOrder(orderId, side, pair)
cancelOrder ==
  /\ \E side \in {<<"buy">>, <<"sell">>} : \E pair \in {Pair} :
     \E httpCode \in {200, 400} : \E bodyError \in BOOLEAN :
     \E state \in {"CANCELED", "other"} : \E clientOrderId \in BOOLEAN :
       LET args == <<"id", side, pair>>
           coinPair == formatPairName(adapter.name, cancelOrderPair(adapter.name, args))
           settles == handleResponse(adapter.name, httpCode, bodyError)
           result == [NoCall EXCEPT
                        !.op = "cancelOrder",
                        !.input = "id",
                        !.sent = TRUE,
                        !.symbol = coinPair.symbol,
                        !.output = cancelOrderResult(adapter.name, settles, state,
                                                     clientOrderId)]
       IN  adapter' = [adapter EXCEPT !.lastCall = result]
  /\ AdapterOnly

\* --------------------------------------------------------- getOrderDetails
\* the states an order id can be in on the exchange
OrderStates == {"new", "part_filled", "filled", "cancelled", "notFound"}

\* how much of the order the exchange reports as done
VolumeDone(state) ==
  CASE state = "new" -> {"none"}
    [] state = "part_filled" -> {"part"}
    [] state = "filled" -> {"all"}
    [] state = "cancelled" -> {"none", "part"}
    [] OTHER -> {"none"}

\* the status code bitqik reports for an order
ORDER_STATUS(code) ==
  CASE code = 2 -> "new"
    [] code = 5 -> "part_filled"
    [] code = 4 -> "filled"
    [] code = 9 -> "new"
    [] code = 6 -> "cancelled"
    [] OTHER -> "cancelled"

StatusCode(state) ==
  CASE state = "new" -> {2, 9}
    [] state = "part_filled" -> {5}
    [] state = "filled" -> {4}
    [] state = "cancelled" -> {6}
    [] OTHER -> {0}

\* the status getOrderDetails returns for a settled request
orderStatus(name, settles, volumeDone, code) ==
  IF settles = "rejected" THEN "undefined"
  ELSE IF settles = "resolvedWithErrorInfo" THEN "unknown"
  ELSE IF name = "dextrade"
       THEN IF volumeDone = "none" THEN "new"
            ELSE IF volumeDone = "all" THEN "filled" ELSE "part_filled"
       ELSE ORDER_STATUS(code)

\* getOrderDetails(orderId, pair) of the dextrade and bitqik adapters
getOrderDetails ==
  /\ adapter.name \in {"dextrade", "bitqik"}
  /\ \E state \in OrderStates : \E httpCode \in {200, 400} :
     \E volumeDone \in VolumeDone(state) : \E code \in StatusCode(state) :
       LET settles == handleResponse(adapter.name, httpCode, state = "notFound")
           result == [NoCall EXCEPT
                        !.op = "getOrderDetails",
                        !.input = state,
                        !.output = orderStatus(adapter.name, settles, volumeDone, code)]
       IN  adapter' = [adapter EXCEPT !.lastCall = result]
  /\ AdapterOnly

Adapter ==
  \/ MarketInfo
  \/ MarketsRespond
  \/ MarketsFinally
  \/ placeOrder
  \/ cancelOrder
  \/ getOrderDetails

\* ------------------------------------------------------- operator commands
NoCommand ==
  [name |-> "", params |-> <<>>, input |-> <<>>, reply |-> "", attempted |-> {},
   placements |-> 0, registered |-> FALSE, orderList |-> <<>>,
   range |-> [count |-> 0, low |-> 0, high |-> 0]]

\* every clear or fill leaves the builder, the routers and the adapter alone
CommandOnly ==
  UNCHANGED <<tradeParams, isPreviousIterationFinished, chain, pw, survived, dialect,
              handler, executed, savedConfig, adapter>>

\* ------------------------------------------------------------------ clear
\* the words of a clear command, each a sequence of its parts: purpose
\* selectors, price filters (operator, digit) and the quote coin
ClearWords ==
  {<<"ob">>, <<"all">>, <<"unk">>, <<">", "2">>, <<"<", "2">>, <<"USDT">>}

ClearParams == UNION {[1..n -> ClearWords] : n \in 1..MaxParams}

\* +price.substring(1)
ToNumber(digit) ==
  CASE digit = "1" -> 1
    [] digit = "2" -> 2
    [] digit = "3" -> 3

\* param.startsWith('>') || param.startsWith('<')
IsPriceFilter(param) == param[1] \in {">", "<"}

\* params.indexOf(param): the first position that holds the word
indexOf(params, param) ==
  CHOOSE i \in 1..Len(params) :
    params[i] = param /\ \A k \in 1..(i - 1) : params[k] # param

NoFilter == [operator |-> "", price |-> 0]

\* the for loop of clear from word i on: what it has collected so far, and the
\* reply of an early return
RECURSIVE clearParse(_, _, _)
clearParse(params, i, acc) ==
  IF i > Len(params) THEN acc
  ELSE
    LET param == params[i]
        purposes == IF param[1] \in {"all", "unk", "ob"} THEN param[1] ELSE acc.purposes
        paramIndex == indexOf(params, param)
        priceCoin == IF paramIndex + 1 <= Len(params) THEN params[paramIndex + 1]
                     ELSE <<"undefined">>
    IN  IF ~IsPriceFilter(param)
        THEN clearParse(params, i + 1, [acc EXCEPT !.purposes = purposes])
        ELSE IF purposes \in {"all", "unk"}
        THEN [acc EXCEPT !.reply = "Price filter doesn't work with all and unk orders"]
        ELSE IF priceCoin # <<"USDT">>
        THEN [acc EXCEPT !.reply = "Price should be in coin2"]
        ELSE clearParse(params, i + 1,
                        [acc EXCEPT !.purposes = purposes,
                                    !.filter = [operator |-> param[1],
                                                price |-> ToNumber(param[2])]])

\* filter.price = { $lt: price } or { $gt: price } applied to a ledger row
MatchesFilter(filter, price) ==
  CASE filter.operator = "<" -> price < filter.price
    [] filter.operator = ">" -> price > filter.price
    [] OTHER -> TRUE

\* the ledger orders clearLocalOrders selects
clearLocalOrders(filter) ==
  {i \in OpenIds : MatchesFilter(filter, ordersDb[i].price)}

\* the prices of the orders a parsed clear tries to cancel; unknown: the prices
\* of the exchange's open orders that are not in the ledger
clearAttempts(parsed, unknown) ==
  CASE parsed.reply # "" -> {}
    [] parsed.purposes = "" -> {}
    [] parsed.purposes = "all" -> {ordersDb[i].price : i \in OpenIds} \cup unknown
    [] parsed.purposes = "unk" -> unknown
    [] OTHER -> {ordersDb[i].price : i \in clearLocalOrders(parsed.filter)}

\* the clear command
clear(params) ==
  LET parsed == clearParse(params, 1, [purposes |-> "", filter |-> NoFilter, reply |-> ""])
      clears == parsed.reply = "" /\ parsed.purposes # ""
      ledgerIds == CASE ~clears \/ parsed.purposes = "unk" -> {}
                     [] parsed.purposes = "all" -> OpenIds
                     [] OTHER -> clearLocalOrders(parsed.filter)
      live == IF clears /\ parsed.purposes \in {"all", "unk"}
              THEN {{}} \cup {{p} : p \in Prices} ELSE {{}}
  IN  /\ \E cancelled \in SUBSET ledgerIds :
           ordersDb' = [i \in 1..Len(ordersDb) |->
                          IF i \in cancelled THEN ClosedRow ELSE ordersDb[i]]
      /\ \E unknown \in live :
           lastCommand' =
             [NoCommand EXCEPT
                !.name = "clear",
                !.params = params,
                !.reply = IF parsed.reply # "" THEN parsed.reply
                          ELSE IF parsed.purposes = "" THEN "Specify type of orders to clear"
                          ELSE "logMessage",
                !.attempted = clearAttempts(parsed, unknown)]
      /\ UNCHANGED pendingConfirmation
      /\ CommandOnly

\* ------------------------------------------------------------------- fill
\* what a fill command carries and finds: a number 0 stands for a parameter
\* that is missing or zero, which the checks of fill treat alike
FillInputs ==
  [length : {3, 4}, type : {"buy", "sell", ""}, amountName : {"amount", "quote"},
   amount : 0..MaxAmount, count : 0..MaxCount, low : 1..2, high : 0..1,
   balances : BOOLEAN, free : [{"coin1", "coin2"} -> {0, MaxAmount}],
   isConfirmed : BOOLEAN, toConfirm : BOOLEAN]

\* what the checks of fill read of its input once the parameters are parsed
FillRead(in) ==
  [type |-> in.type, amount |-> in.amount, balances |-> in.balances, free |-> in.free,
   wellFormed |-> /\ in.length >= 4
                  /\ in.type \in {"buy", "sell"}
                  /\ in.amount # 0
                  /\ in.amountName = (IF in.type = "buy" THEN "quote" ELSE "amount")
                  /\ in.count >= 1
                  /\ in.high # 0 /\ in.low # 0 /\ in.low <= in.high]

\* isBalanceEnough of a fill that places whatever the balance is
isBalanceEnoughAlways(in) == TRUE

\* isBalanceEnough = balance >= amount, on the coin the orders spend
isBalanceEnough(in) ==
  LET balance == IF in.type = "buy" THEN in.free["coin2"] ELSE in.free["coin1"]
  IN  balance >= in.amount

\* the reply of fill when it returns before it places anything, "" otherwise
fillRejection(in) ==
  IF in.length < 4 THEN "Wrong arguments"
  ELSE IF in.type \notin {"buy", "sell"} THEN "Specify buy or sell orders to fill"
  ELSE IF \/ in.amount = 0
          \/ in.type = "buy" /\ in.amountName = "amount"
          \/ in.type = "sell" /\ in.amountName = "quote"
       THEN "Buy should follow with quote, sell with amount"
  ELSE IF in.count < 1 THEN "Specify order count"
  ELSE IF in.high = 0 \/ in.low = 0 THEN "Specify low and high prices"
  ELSE IF in.low > in.high THEN "high should be greater than low"
  ELSE IF ~in.balances THEN "Unable to get balances"
  ELSE IF ~isBalanceEnough(in) THEN "Not enough"
  ELSE ""

\* utils.randomDeviation(number, 0.9) in tenths of number: the least, the
\* middle and the greatest value it draws
Deviations == {1, 10, 19}

\* prices of the order list are counted in units of 1 / (10 * count), so that
\* step * deviation / 10 is a whole number of units
Units(in) == 10 * in.count

\* the loop that makes the order list without the test of price against high
RECURSIVE makeOrderListAnyPrice(_, _, _, _, _, _)
makeOrderListAnyPrice(in, i, price, total, priceDraws, amountDraws) ==
  IF i > in.count THEN <<>>
  ELSE
    LET drawn == price + priceDraws[i] * (in.high - in.low)
        newTotal == total + amountDraws[i]
    IN  IF newTotal > Units(in) /\ in.count # 1 THEN <<>>
        ELSE <<[price |-> drawn]>> \o
             makeOrderListAnyPrice(in, i + 1, drawn, newTotal, priceDraws, amountDraws)

\* the loop that makes the order list, from order i on; total is counted in
\* units of amount / (10 * count)
RECURSIVE makeOrderList(_, _, _, _, _, _)
makeOrderList(in, i, price, total, priceDraws, amountDraws) ==
  IF i > in.count THEN <<>>
  ELSE
    LET drawn == price + priceDraws[i] * (in.high - in.low)
        newTotal == total + amountDraws[i]
        high == in.high * Units(in)
    IN  IF newTotal > Units(in) /\ in.count # 1 THEN <<>>
        ELSE IF drawn > high /\ in.count # 1 THEN <<>>
        ELSE LET newPrice == IF drawn > high THEN high ELSE drawn
             IN  <<[price |-> newPrice]>> \o
                 makeOrderList(in, i + 1, newPrice, newTotal, priceDraws, amountDraws)

\* the fill command: rejected, waiting for a confirmation, or placing orders
fill(in) ==
  LET rejection == fillRejection(in)
      asks == rejection = "" /\ in.toConfirm /\ ~in.isConfirmed
      places == rejection = "" /\ ~asks
      draws == IF places THEN [1..in.count -> Deviations] ELSE {<<>>}
  IN  /\ IF asks THEN setPendingConfirmation("fill") ELSE UNCHANGED pendingConfirmation
      /\ \E priceDraws \in draws : \E amountDraws \in draws :
           LET orderList == IF places
                            THEN makeOrderList(in, 1, in.low * Units(in), 0,
                                               priceDraws, amountDraws)
                            ELSE <<>>
           IN  \E placed \in {0, Len(orderList)} :
                 lastCommand' =
                   [NoCommand EXCEPT
                      !.name = "fill",
                      !.input = FillRead(in),
                      !.registered = asks,
                      !.placements = Len(orderList),
                      !.orderList = orderList,
                      !.range = IF places
                                THEN [count |-> in.count, low |-> in.low * Units(in),
                                      high |-> in.high * Units(in)]
                                ELSE NoCommand.range,
                      !.reply = IF rejection # "" THEN rejection
                                ELSE IF asks THEN "Are you sure"
                                ELSE IF placed > 0 THEN "orders filled"
                                ELSE "No orders were placed"]
      /\ UNCHANGED ordersDb
      /\ CommandOnly

\* the fill commands that pass every check and need no confirmation
FillAccepted ==
  {in \in [length : {4}, type : {"buy", "sell"}, amountName : {"amount", "quote"},
           amount : {MaxAmount}, count : 1..MaxCount, low : 1..MaxLow, high : 1..(MaxLow + 1),
           balances : {TRUE}, free : {[coin \in {"coin1", "coin2"} |-> MaxAmount]},
           isConfirmed : BOOLEAN, toConfirm : BOOLEAN] :
     fillRejection(in) = "" /\ (in.toConfirm => in.isConfirmed)}

\* ------------------------------------------------------------------- make
\* the words after /make: price, a target price, the quote coin and now
MakeForms ==
  {<<"price", t, "USDT", "now">> : t \in {"1", "3"}} \cup
  {<<"price", "3">>, <<"price", "3", "USDT">>, <<"depth", "3", "USDT", "now">>}

\* what the operator types: a form, with or without the marker -y
MakeParams == MakeForms \cup {form \o <<"-y">> : form \in MakeForms}

\* what make finds on the exchange: the rates, the order book with its best
\* bid and ask and the depth that stands between the spread and the target
MakeFinds ==
  {[rates |-> rates, orderBook |-> orderBook, bid |-> bid, ask |-> bid + 1,
    depth |-> depth, placed |-> placed] :
     rates \in BOOLEAN, orderBook \in BOOLEAN, bid \in {1, 2}, depth \in 1..MaxDepth,
     placed \in BOOLEAN}

\* utils.randomValue(1.05, 1.1), in hundredths
reliabilityKoef == {105, 110}

\* params[i] of the source (counted from 0), "undefined" beyond the end
ParamAt(params, i) == IF i + 1 <= Len(params) THEN params[i + 1] ELSE "undefined"

\* +params[1]
TargetPrice(params) ==
  IF ParamAt(params, 1) \in {"1", "2", "3"} THEN ToNumber(ParamAt(params, 1)) ELSE 0

\* orderBookInfo.typeTargetPrice
typeTargetPrice(finds, targetPrice) ==
  IF targetPrice > finds.ask THEN "buy"
  ELSE IF targetPrice < finds.bid THEN "sell"
  ELSE "inSpread"

\* how make reads the marker -y off its parameters
isConfirmed(d, params) ==
  IF d = "A" THEN ParamAt(params, Len(params) - 1) = "-y"
  ELSE ParamAt(params, 2) = "-y"

\* the early returns of make, "" when it goes on to the order book
makeRejection(d, params, finds) ==
  IF ParamAt(params, 0) # "price" THEN "Indicate option"
  ELSE IF d = "A" /\ ~finds.rates THEN "Try again"
  ELSE IF TargetPrice(params) = 0 THEN "Incorrect target price"
  ELSE IF d = "A" /\ ParamAt(params, 2) # "USDT" THEN "You must set a price in coin2"
  ELSE IF d = "A" /\ ParamAt(params, 3) # "now" THEN "Specify when to achieve target price"
  ELSE IF ~finds.orderBook THEN "undefined"
  ELSE IF typeTargetPrice(finds, TargetPrice(params)) = "inSpread" THEN "already in spread"
  ELSE ""

\* what one run of make does: its reply, the order it sends and whether it
\* calls setPendingConfirmation
makeRuns(d, params, finds, koef) ==
  LET rejection == makeRejection(d, params, finds)
      confirmed == isConfirmed(d, params)
      sends == rejection = "" /\ confirmed
  IN  [reply |-> IF rejection # "" THEN rejection
                 ELSE IF ~confirmed THEN "Are you sure"
                 ELSE IF finds.placed THEN "Successfully placed an order"
                 ELSE IF d = "A" THEN "Unable to make" ELSE "undefined",
       orderList |-> IF sends
                     THEN <<[price |-> TargetPrice(params), amount |-> finds.depth * koef,
                             type |-> typeTargetPrice(finds, TargetPrice(params))]>>
                     ELSE <<>>,
       registers |-> rejection = "" /\ (d = "A" \/ ~confirmed)]

\* lastCommand after a run of make
MakeDone(name, params, finds, run) ==
  [NoCommand EXCEPT
     !.name = name,
     !.params = params,
     !.input = [depth |-> finds.depth,
                outside |-> finds.rates /\ finds.orderBook
                            /\ typeTargetPrice(finds, TargetPrice(params)) # "inSpread"],
     !.reply = run.reply,
     !.orderList = run.orderList,
     !.placements = Len(run.orderList),
     !.registered = run.registers]

\* the commands of the make specification leave all but the prompt alone
MakeOnly ==
  /\ UNCHANGED ordersDb
  /\ CommandOnly

\* the operator types /make, with or without -y
make(params) ==
  /\ \E finds \in MakeFinds : \E koef \in reliabilityKoef :
       LET run == makeRuns(dialect, params, finds, koef)
       IN  /\ lastCommand' = MakeDone("make", params, finds, run)
           /\ pendingConfirmation' =
                IF run.registers
                THEN [command |-> "make", params |-> params, timestamp |-> unixTimeStampMs]
                ELSE pendingConfirmation
  /\ MakeOnly

\* the operator types /y and the handler of y runs to its end, the re-run of
\* the pending command included
y ==
  /\ IF pendingConfirmation.command = ""
     THEN /\ lastCommand' = [NoCommand EXCEPT !.name = "y",
                                !.reply = "There is no pending command to confirm"]
          /\ UNCHANGED pendingConfirmation
     ELSE IF Expired
     THEN /\ lastCommand' = [NoCommand EXCEPT !.name = "y",
                                !.reply = "I will not confirm: expired"]
          /\ pendingConfirmation' =
               IF dialect = "A" THEN [pendingConfirmation EXCEPT !.command = "", !.params = <<>>]
               ELSE pendingConfirmation
     ELSE \E finds \in MakeFinds : \E koef \in reliabilityKoef :
            LET params == pendingConfirmation.params \o <<"-y">>
                run == makeRuns(dialect, params, finds, koef)
            IN  /\ lastCommand' = MakeDone("y", params, finds, run)
                /\ pendingConfirmation' =
                     IF dialect = "A"
                     THEN [command |-> "", params |-> <<>>,
                           timestamp |-> IF run.registers THEN unixTimeStampMs
                                         ELSE pendingConfirmation.timestamp]
                     ELSE IF run.registers /\ Len(params) <= MaxParams + 2
                     THEN [command |-> "make", params |-> params,
                           timestamp |-> unixTimeStampMs]
                     ELSE pendingConfirmation
  /\ MakeOnly

\* ---------------------------------------------------------------- setPrice
\* the sides of an order book setPrice is tried on: at least two orders,
\* prices up to MaxBookPrice ticks
BookLists(type) ==
  {s \in UNION {[1..n -> 1..MaxBookPrice] : n \in 2..MaxListLen} : IsSorted(type, s)}

\* placeOrderBookOrder from the order book to the price: duplicates are
\* removed, the position is drawn, setPrice gives the price
placeOrderBookOrderPrice ==
  /\ \E type \in Types : \E raw \in BookLists(type) :
       LET orderList == RemoveDuplicates(raw, {}) IN
       /\ Len(orderList) >= 2
       /\ \E position \in setPosition(Len(orderList)) :
          \E price \in setPrice(type, position, orderList) :
            lastCommand' = [NoCommand EXCEPT
                              !.name = "setPrice",
                              !.input = [type |-> type, position |-> position,
                                         orderList |-> orderList, price |-> price]]
  /\ UNCHANGED <<tradeParams, isPreviousIterationFinished, chain, ordersDb, pw, survived,
                 routerVars, savedConfig, adapter>>

\* ------------------------------------------------------ parameter commands
\* A word of a command is the sequence of its tokens: numerals, signs and
\* names.  <<>> is the empty string and the parameter that is not there.
WordAt(params, i) == IF i + 1 <= Len(params) THEN params[i + 1] ELSE <<>>

NaN == [finite |-> FALSE, n |-> 0]
Infinity == [finite |-> FALSE, n |-> 1]
Finite(n) == [finite |-> TRUE, n |-> n]

Numerals == {"0", "1", "2", "3", "50", "100", "101", "350"}

NumeralValue(numeral) ==
  CASE numeral = "0" -> 0
    [] numeral = "1" -> 1
    [] numeral = "2" -> 2
    [] numeral = "3" -> 3
    [] numeral = "50" -> 50
    [] numeral = "100" -> 100
    [] numeral = "101" -> 101
    [] numeral = "350" -> 350

\* +word
Number(word) ==
  IF word = <<>> THEN Finite(0)
  ELSE IF Len(word) = 1 /\ word[1] \in Numerals THEN Finite(NumeralValue(word[1]))
  ELSE IF Len(word) = 2 /\ word[1] = "-" /\ word[2] \in Numerals
       THEN Finite(0 - NumeralValue(word[2]))
  ELSE IF word = <<"Infinity">> THEN Infinity
  ELSE NaN

\* !val
Falsy(val) == val = NaN \/ val = Finite(0)

\* utils.isPositiveNumber(val)
isPositiveNumber(val) == val.finite /\ val.n > 0

\* val.indexOf('-') === -1
NoDash(word) == \A i \in 1..Len(word) : word[i] # "-"

\* val.split('-') from token i on; the last piece of acc is the one being read
RECURSIVE split(_, _, _)
split(word, i, acc) ==
  IF i > Len(word) THEN acc
  ELSE IF word[i] = "-" THEN split(word, i + 1, Append(acc, <<>>))
  ELSE split(word, i + 1, [acc EXCEPT ![Len(acc)] = Append(@, word[i])])

\* word.slice(-1) and word.slice(0, -1) of a word that ends in a sign
LastChar(word) == IF word = <<>> THEN "" ELSE word[Len(word)]
ButLast(word) == IF word = <<>> THEN <<>> ELSE SubSeq(word, 1, Len(word) - 1)

\* what a parameter command returns: the record it leaves, its reply, whether
\* the reply is an error of validation, whether it asks for y and whether it
\* ran the confirmed branch of enable pw
Rejected(reply) ==
  [tradeParams |-> tradeParams, reply |-> reply, invalid |-> TRUE,
   registers |-> FALSE, confirmed |-> FALSE]

RejectedWith(params, reply) == [Rejected(reply) EXCEPT !.tradeParams = params]

Accepted(params, reply) ==
  [tradeParams |-> params, reply |-> reply, invalid |-> FALSE,
   registers |-> FALSE, confirmed |-> FALSE]

\* buypercent(param); val / 100 is kept in hundredths
buypercentRuns(param) ==
  LET val == Number(WordAt(param, 0)) IN
  IF Falsy(val) \/ val = Infinity \/ val.n < 0 \/ val.n > 100
  THEN Rejected("Invalid percentage of buy orders")
  ELSE Accepted([tradeParams EXCEPT !.mm_buyPercent = val.n], "Set to make market")

\* amount(param)
amountRuns(d, param) ==
  LET val == WordAt(param, 0)
      pieces == split(val, 1, << <<>> >>)
      min == Number(pieces[1])
      max == Number(pieces[2])
  IN  IF val = <<>> \/ NoDash(val) THEN Rejected("Invalid values")
      ELSE IF Falsy(min) \/ min = Infinity \/ Falsy(max) \/ max = Infinity
      THEN Rejected("Invalid values")
      ELSE IF d = "A" /\ min.n > max.n
      THEN Rejected("Value to must be greater or equal")
      ELSE Accepted([tradeParams EXCEPT !.mm_minAmount = min.n, !.mm_maxAmount = max.n],
                    "Set to make market amounts")

\* the switch of interval over the time unit; 0 is no multiplier
Multiplier(d, time) ==
  CASE time = <<"sec">> -> 1000
    [] time = <<"min">> -> 1000 * 60
    [] time = <<"hour">> -> 1000 * 60 * 60
    [] OTHER -> IF d = "A" THEN 0 ELSE 1000 * 60

\* interval(param)
intervalRuns(d, param) ==
  LET val == WordAt(param, 0)
      multiplier == Multiplier(d, WordAt(param, 1))
      pieces == split(val, 1, << <<>> >>)
      min == Number(pieces[1])
      max == Number(pieces[2])
  IN  IF val = <<>> \/ NoDash(val) THEN Rejected("Invalid intervals")
      ELSE IF multiplier = 0 THEN Rejected("Invalid time unit")
      ELSE IF Falsy(min) \/ min = Infinity \/ Falsy(max) \/ max = Infinity
      THEN Rejected("Invalid intervals")
      ELSE IF d = "A" /\ min.n > max.n
      THEN Rejected("Value to must be greater or equal")
      ELSE Accepted([tradeParams EXCEPT !.mm_minInterval = min.n * multiplier,
                                        !.mm_maxInterval = max.n * multiplier],
                    "Set to make market in intervals")

\* the policies start accepts
StartPolicies(d) == IF d = "A" THEN MM_POLICIES ELSE {"optimal", "spread", "orderbook"}

\* start(params)
startRuns(d, params) ==
  LET type == WordAt(params, 0)
      given == IF d = "A" /\ WordAt(params, 1) = <<"-y">> THEN <<>> ELSE WordAt(params, 1)
      newPolicy == IF given # <<>> THEN given[1]
                   ELSE IF d = "A" THEN tradeParams.mm_Policy ELSE "optimal"
  IN  IF type # <<"mm">> THEN Rejected("Indicate trade type")
      ELSE IF newPolicy \notin StartPolicies(d) THEN Rejected("Wrong market making policy")
      ELSE Accepted([tradeParams EXCEPT !.mm_isActive = TRUE, !.mm_Policy = newPolicy],
                    "Starting market making")

\* enable ob [count] [percent%]
enableObRuns(d, params) ==
  LET orderBookOrdersCount == Number(WordAt(params, 1))
      counted == IF (d = "A" /\ isPositiveNumber(orderBookOrdersCount))
                    \/ (d = "B" /\ ~Falsy(orderBookOrdersCount)
                                /\ orderBookOrdersCount # Infinity)
                 THEN [tradeParams EXCEPT !.mm_orderBookOrdersCount = orderBookOrdersCount.n]
                 ELSE tradeParams
      maxOrderPercentParam == WordAt(params, 2)
      maxOrderPercent == IF maxOrderPercentParam # <<>>
                         THEN Number(ButLast(maxOrderPercentParam)) ELSE Finite(100)
  IN  IF d = "B"
      THEN Accepted([counted EXCEPT !.mm_isOrderBookActive = TRUE],
                    "Order book building is enabled")
      ELSE IF WordAt(params, 1) # <<>> /\ ~isPositiveNumber(orderBookOrdersCount)
      THEN Rejected("Set correct ob-order count")
      ELSE IF maxOrderPercentParam # <<>>
              /\ (~isPositiveNumber(maxOrderPercent) \/ LastChar(maxOrderPercentParam) # "%")
      THEN RejectedWith(counted, "Set correct max ob-order amount percent")
      ELSE Accepted([counted EXCEPT !.mm_isOrderBookActive = TRUE,
                                    !.mm_orderBookMaxOrderPercent = maxOrderPercent.n],
                    "Order book building is enabled")

\* what enable pw finds outside the bot: whether the source (exchange,
\* pair, order book) and the currency are known
EnableFinds == {[source |-> known, currency |-> known] : known \in BOOLEAN}

\* utils.parseRangeOrValue(str): a range from-to, a value, or neither
parseRangeOrValue(word) ==
  LET pieces == split(word, 1, << <<>> >>) IN
  IF Len(pieces) = 2 /\ isPositiveNumber(Number(pieces[1])) /\ isPositiveNumber(Number(pieces[2]))
  THEN "isRange"
  ELSE IF Len(pieces) = 1 /\ isPositiveNumber(Number(word)) THEN "isValue"
  ELSE "none"

\* the end of the pw branch: the confirmed command writes tradeParams, the
\* other asks for y
enablePwEnds(params, pwSourcePolicy) ==
  IF params[Len(params)] = <<"-y">>
  THEN [Accepted([tradeParams EXCEPT !.mm_isPriceWatcherActive = TRUE,
                                     !.mm_priceWatcherSourcePolicy = pwSourcePolicy],
                 "Price watching is enabled") EXCEPT !.confirmed = TRUE]
  ELSE [Accepted(tradeParams, "Are you sure to enable") EXCEPT !.registers = TRUE]

\* enable pw <pair@exchange> <percent%> <policy> <action>
enablePwPair(params, finds) ==
  LET percentString == WordAt(params, 2)
      percentValue == Number(ButLast(percentString))
      pwSourcePolicy == LastChar(WordAt(params, 3))
      pwAction == LastChar(WordAt(params, 4))
  IN  IF ~finds.source THEN Rejected("Wrong price source")
      ELSE IF percentString = <<>> \/ LastChar(percentString) # "%"
      THEN Rejected("Set a deviation in percentage")
      ELSE IF percentValue = Infinity
              \/ (percentValue.finite /\ (percentValue.n < 0 \/ percentValue.n > 90))
      THEN Rejected("Set correct deviation in percentage")
      ELSE IF pwSourcePolicy \notin {"smart", "strict"}
      THEN Rejected("Wrong deviation policy")
      ELSE IF pwAction \notin {"fill", "prevent"} THEN Rejected("Wrong Pw action")
      ELSE enablePwEnds(params, pwSourcePolicy)

\* enable pw <from-to> <coin> <action> and enable pw <value> <coin>
\* <percent%> <action>: pwSourcePolicy is declared and never assigned
enablePwCoin(params, finds) ==
  LET rangeOrValue == parseRangeOrValue(WordAt(params, 1))
      coin == WordAt(params, 2)
      percentString == WordAt(params, 3)
      percentValue == Number(ButLast(percentString))
      pwActionParam == IF rangeOrValue = "isRange" THEN WordAt(params, 3)
                       ELSE WordAt(params, 4)
  IN  IF rangeOrValue = "none" THEN Rejected("Set a price range or value")
      ELSE IF coin = <<>> \/ coin = <<"ADM">> \/ ~finds.currency
      THEN Rejected("Incorrect currency")
      ELSE IF rangeOrValue = "isValue"
              /\ (percentString = <<>> \/ LastChar(percentString) # "%")
      THEN Rejected("Set a deviation in percentage")
      ELSE IF rangeOrValue = "isValue"
              /\ (Falsy(percentValue) \/ percentValue = Infinity
                  \/ percentValue.n <= 0 \/ percentValue.n > 90)
      THEN Rejected("Set correct deviation in percentage")
      ELSE IF LastChar(pwActionParam) \notin {"fill", "prevent"}
      THEN Rejected("Wrong Pw action")
      ELSE enablePwEnds(params, "undefined")

\* enable(params); the forms drawn are those of ob and pw
enableRuns(d, params, finds) ==
  LET type == WordAt(params, 0) IN
  IF type = <<"ob">> THEN enableObRuns(d, params)
  ELSE IF d = "A" /\ type = <<"pw">>
  THEN IF \E i \in 1..Len(WordAt(params, 1)) : WordAt(params, 1)[i] = "@"
       THEN enablePwPair(params, finds)
       ELSE enablePwCoin(params, finds)
  ELSE Rejected("Indicate option")

\* the parameters the operator types after each command
BuypercentParams ==
  {<<>>} \cup {<<word>> : word \in {<<"0">>, <<"50">>, <<"100">>, <<"101">>, <<"-", "1">>,
                                    <<"abc">>, <<"Infinity">>}}

AmountParams ==
  {<<>>} \cup {<<word>> : word \in {<<"1", "-", "2">>, <<"2", "-", "1">>,
                                    <<"0", "-", "2">>}}

IntervalParams ==
  {<<<<"3", "-", "350">>, <<"sec">>>>, <<<<"3", "-", "350">>>>,
   <<<<"350", "-", "3">>, <<"sec">>>>, <<<<"abc", "-", "2">>, <<"min">>>>}

StartParams ==
  {<<>>, <<<<"mm">>>>, <<<<"mm">>, <<"depth">>>>, <<<<"mm">>, <<"orderbook">>>>,
   <<<<"mm">>, <<"-y">>>>}

EnableObParams ==
  {<<>>, <<<<"ob">>>>, <<<<"ob">>, <<"1">>>>, <<<<"ob">>, <<"abc">>>>,
   <<<<"ob">>, <<"2">>, <<"50", "%">>>>, <<<<"ob">>, <<"1">>, <<"50">>>>}

EnablePwForms ==
  {<<<<"pw">>, <<"ADM/USDT", "@", "Azbit">>, <<"1", "%">>, <<policy>>, <<"prevent">>>> :
     policy \in {"smart", "strict", "loose"}}
  \cup {<<<<"pw">>, <<"1", "-", "2">>, <<"USDT">>, <<"fill">>>>,
        <<<<"pw">>, <<"1">>, <<"USDT">>, <<"1", "%">>, <<"fill">>>>,
        <<<<"pw">>, <<"1">>, <<"USDT">>, <<"fill">>>>}

EnableParams ==
  EnableObParams \cup EnablePwForms \cup {form \o <<<<"-y">>>> : form \in EnablePwForms}

\* the end of module.exports after a parameter command: the reply is kept,
\* the prompt is set where the command asked for y, and the configuration
\* is saved
ParamDone(name, input, run) ==
  /\ tradeParams' = run.tradeParams
  /\ lastCommand' = [NoCommand EXCEPT !.name = name, !.input = input, !.reply = run.reply,
                                      !.registered = run.registers]
  /\ pendingConfirmation' =
       IF run.registers
       THEN [command |-> name, params |-> <<>>, timestamp |-> unixTimeStampMs]
       ELSE pendingConfirmation
  /\ pw' = IF run.confirmed THEN [pw EXCEPT !.isActual = FALSE] ELSE pw
  /\ survived' = IF run.confirmed THEN [i \in DOMAIN survived |-> 0] ELSE survived
  /\ saveConfig(FALSE)
  /\ UNCHANGED <<isPreviousIterationFinished, chain, ordersDb, dialect, handler, executed,
                 adapter>>

\* the operator types /buypercent
buypercent(param) ==
  ParamDone("buypercent", WordAt(param, 0), buypercentRuns(param))

\* the operator types /amount
amount(param) == ParamDone("amount", <<>>, amountRuns(dialect, param))

\* the operator types /interval
interval(param) == ParamDone("interval", <<>>, intervalRuns(dialect, param))

\* the operator types /start
startCommand(params) == ParamDone("start", <<>>, startRuns(dialect, params))

\* the operator types /enable
enable(params) ==
  \E finds \in EnableFinds :
    LET run == enableRuns(dialect, params, finds)
    IN  ParamDone(IF WordAt(params, 0) = <<"pw">> THEN "enable pw" ELSE "enable",
                  IF run.confirmed THEN params ELSE <<>>, run)

\* ---------------------------------------------------------- specifications
\* tradeParams is a persisted record: construction loads what the operator
\* saved.  Persisted(active) is such a record.
Persisted(active) ==
  [mm_isActive |-> active, mm_Policy |-> "optimal",
   mm_isOrderBookActive |-> TRUE,
   mm_orderBookHeight |-> OrderBookHeight,
   mm_orderBookOrdersCount |-> MaxCount,
   mm_isPriceWatcherActive |-> FALSE,
   mm_priceWatcherSourcePolicy |-> "smart",
   mm_buyPercent |-> 50,
   mm_minAmount |-> 1, mm_maxAmount |-> 2,
   mm_minInterval |-> 3000, mm_maxInterval |-> 350000,
   mm_orderBookMaxOrderPercent |-> 0]

\* the bot after its start with the record loaded, the ledger apart
InitLoaded(loaded, routers, names) ==
  /\ tradeParams = loaded
  /\ isPreviousIterationFinished = TRUE
  /\ chain = [c \in Chains |-> IdleChain("none")]
  /\ pw = [isActual |-> FALSE, isAnomaly |-> FALSE, low |-> 0, high |-> 0]
  /\ survived = [i \in 1..MaxOrders |-> 0]
  /\ dialect \in routers
  /\ pendingConfirmation = [command |-> "", params |-> <<>>,
                            timestamp |-> 0 - (timeToConfirm + 1)]
  /\ handler = [h \in Handlers |-> IdleHandler]
  /\ executed = 0
  /\ savedConfig = [tradeParams |-> loaded, byY |-> FALSE]
  /\ adapter \in Constructed(names)
  /\ lastCommand = NoCommand

InitBot(active, routers, names) == InitLoaded(Persisted(active), routers, names)

InitWith(active, routers, names) ==
  /\ ordersDb = <<>>
  /\ InitBot(active, routers, names)

Builder(c) ==
  \/ Run(c)
  \/ TimerFires(c)
  \/ FindReturns(c)
  \/ BuildThrows(c)
  \/ UpdateOrders(c)
  \/ CloseExamine(c)
  \/ CancelResult(c)
  \/ CloseDone(c)
  \/ StartPlacement(c)
  \/ FinishBuild(c)
  \/ OrderBookReturns(c)
  \/ BalancesReturn(c)
  \/ PlaceOrderAccepted(c)
  \/ PlaceOrderFailed(c)

\* Spec: market making is running, run() was called once; the operator
\* switches the price watcher, the watcher publishes, time passes
Init == InitWith(TRUE, {"A"}, {"dextrade"})

Next ==
  \/ Builder(1)
  \/ \E p \in PW_POLICIES : enablePw(p)
  \/ disablePw
  \/ PwPublishes(Bands)
  \/ TimePasses

Spec == Init /\ [][Next]_vars

\* SpecPrice: as Spec with the watcher switched on under policy strict and
\* publishing near and far bands
NextPrice ==
  \/ Builder(1)
  \/ enablePw("strict")
  \/ PwPublishes(BandsFar)

SpecPrice == Init /\ [][NextPrice]_vars

\* SpecBudget: as Spec, the operator sets the ob-order count, the price
\* watcher stays off
NextBudget ==
  \/ Builder(1)
  \/ \E n \in 1..MaxCount : enableOb(n)
  \/ TimePasses

SpecBudget == Init /\ [][NextBudget]_vars

\* SpecGate: run() may be called several times; the operator starts and
\* stops market making and the order book; the price watcher stays off
InitGate == InitWith(FALSE, {"A"}, {"dextrade"})

NextGate ==
  \/ \E c \in Chains : Builder(c)
  \/ \E newPolicy \in MM_POLICIES : start(newPolicy)
  \/ stop
  \/ enableOb(tradeParams.mm_orderBookOrdersCount)
  \/ disableOb
  \/ TimePasses

SpecGate == InitGate /\ [][NextGate]_vars

\* SpecStop: one iteration loop, the operator starts and stops market making;
\* every awaited call of the builder settles
NextStop ==
  \/ Builder(1)
  \/ \E newPolicy \in MM_POLICIES : start(newPolicy)
  \/ stop
  \/ TimePasses

SpecStop == Init /\ [][NextStop]_vars /\ WF_vars(Builder(1))

\* SpecCmd: the command router alone: commands ask for confirmation, the
\* operator sends y, starts and stops market making, minutes pass
NextCmd ==
  \/ \E command \in {"make", "fill"} : AskConfirmation(command)
  \/ \E h \in Handlers : yAsync(h)
  \/ \E h \in Handlers : ySync(h)
  \/ \E h \in Handlers : RerunExecutes(h)
  \/ \E h \in Handlers : RerunReturns(h)
  \/ MinutePasses
  \/ \E newPolicy \in MM_POLICIES : start(newPolicy)
  \/ stop

InitCmd == InitWith(FALSE, Dialects, {"dextrade"})

SpecCmd == InitCmd /\ [][NextCmd]_vars

\* the three exchange adapters, each with its markets cache, called by the bot
InitAdapter == InitWith(FALSE, {"A"}, Adapters)

SpecAdapter == InitAdapter /\ [][Adapter]_vars

\* the operator sends clear commands to a bot whose ledger holds open ob-orders
Ledgers ==
  {<<>>} \cup
  {<<[price |-> p, dateTill |-> MaxLifeTime, isProcessed |-> FALSE],
     [price |-> q, dateTill |-> MaxLifeTime, isProcessed |-> FALSE]>> :
     p \in Prices, q \in {MaxPrice}}

InitClear ==
  /\ ordersDb \in Ledgers
  /\ InitBot(FALSE, {"A"}, {"dextrade"})

NextClear == \E params \in ClearParams : clear(params)

SpecClear == InitClear /\ [][NextClear]_vars

\* the operator sends fill commands
NextFill == \E in \in FillInputs : fill(in)

SpecFill == InitGate /\ [][NextFill]_vars

\* the operator sends fill commands that are accepted
NextFillOrders == \E in \in FillAccepted : fill(in)

SpecFillOrders == InitGate /\ [][NextFillOrders]_vars

\* SpecType: one iteration loop while the operator sets the buy percentage;
\* the record loaded has mm_buyPercent set or not
InitType ==
  /\ ordersDb = <<>>
  /\ \E percent \in {0, 50} :
       InitLoaded([Persisted(TRUE) EXCEPT !.mm_buyPercent = percent], {"A"}, {"dextrade"})

NextType ==
  \/ Builder(1)
  \/ \E param \in BuypercentParams : buypercent(param)
  \/ TimePasses

SpecType == InitType /\ [][NextType]_vars

\* SpecParams: the operator sets the parameters of market making through
\* either command router
NextParams ==
  \/ \E param \in BuypercentParams : buypercent(param)
  \/ \E param \in AmountParams : amount(param)
  \/ \E param \in IntervalParams : interval(param)
  \/ \E params \in StartParams : startCommand(params)
  \/ \E params \in EnableParams : enable(params)

SpecParams == InitCmd /\ [][NextParams]_vars

\* SpecSetPrice: setPrice on every side of an order book of up to MaxListLen
\* orders, every position visible, the price watcher off
InitSetPrice ==
  /\ ordersDb = <<>>
  /\ InitLoaded([Persisted(FALSE) EXCEPT !.mm_orderBookHeight = MaxListLen],
                {"A"}, {"dextrade"})

NextSetPrice == placeOrderBookOrderPrice

SpecSetPrice == InitSetPrice /\ [][NextSetPrice]_vars

\* the operator types /make and /y to either router, and prompts expire
NextMake ==
  \/ \E params \in MakeParams : make(params)
  \/ y
  \/ PromptExpires

SpecMake == InitCmd /\ [][NextMake]_vars

\* ------------------------------------------------------------------ claims
\* C1: no two executions of buildOrderBook overlap in time: at most one
\* iteration loop is inside buildOrderBook in any state, for every number of
\* run() calls and every interleaving at the await points.
C1_NoOverlap == Cardinality({c \in Chains : InBuild(c)}) <= 1

\* a second iteration loop was refused while the first was inside buildOrderBook
C1_Witness ==
  \E c, d \in Chains :
    /\ c # d
    /\ InBuild(c)
    /\ chain[d].pc = "timer"
    /\ IterationGate

\* C8: buildOrderBook starts only in a state where mm_isActive and
\* mm_isOrderBookActive are true and mm_Policy is optimal or spread; under
\* policy depth no tick starts.
BuildStarts(c) == ~InBuild(c) /\ InBuild(c)'

C8_StartsOnlyWhenGated ==
  [][\A c \in Chains :
       BuildStarts(c) =>
         /\ tradeParams.mm_isActive
         /\ tradeParams.mm_isOrderBookActive
         /\ tradeParams.mm_Policy \in {"optimal", "spread"}
         /\ tradeParams.mm_Policy # "depth"]_vars

\* a tick is in flight after the operator had switched the policy to spread
C8_Witness ==
  \E c \in Chains : chain[c].pc = "find" /\ tradeParams.mm_Policy = "spread"

\* C2: at the end of every builder tick the number of open ob-orders is at
\* most tradeParams.mm_orderBookOrdersCount, whatever count the operator set
\* and whatever the cancellations of the tick returned.
C2_BudgetAtTickEnd ==
  [][\A c \in Chains :
       (InBuild(c) /\ ~InBuild(c)') =>
         Cardinality(OpenIds') <= tradeParams'.mm_orderBookOrdersCount]_vars

\* C3: an order the builder sends while the watcher it consulted was enabled,
\* actual and without anomaly under policy strict has a price p with
\* low <= p <= high, be it a buy or a sell.
C3_SentInsideBand ==
  \A c \in Chains :
    (/\ chain[c].pc = "placeOrder"
     /\ chain[c].seen.enabled
     /\ chain[c].seen.policy = "strict"
     /\ chain[c].seen.isActual
     /\ ~chain[c].seen.isAnomaly) =>
      /\ chain[c].seen.low <= chain[c].price
      /\ chain[c].price <= chain[c].seen.high

C5_ExecutedOnce == executed <= 1

C7_NoneSurvivesTwoTicks ==
  (\A c \in Chains : ~InBuild(c)) =>
    \A i \in OpenIds :
      (/\ tradeParams.mm_priceWatcherSourcePolicy = "strict"
       /\ isOrderOutOfPriceWatcherRange(ordersDb[i])) => survived[i] < 2

\* C7 amended: with the watcher enabled and actual, the tick that examines an
\* open ob-order outside the band requests its cancellation from the order
\* collector.
C7_OutOfRangeAttempted ==
  [][\A c \in Chains :
       (/\ chain[c].pc = "close"
        /\ chain[c].idx <= Len(chain[c].orderBookOrders)
        /\ chain'[c] # chain[c]
        /\ isOrderOutOfPriceWatcherRange(ordersDb[chain[c].orderBookOrders[chain[c].idx]])) =>
         /\ chain'[c].pc = "cancel"
         /\ chain[c].orderBookOrders[chain[c].idx] \in chain'[c].attempted]_vars

\* the cancellation of an unexpired order outside the band is under way
C7_Witness ==
  \E c \in Chains :
    /\ chain[c].pc = "cancel"
    /\ chain[c].reasonToClose = "outOfPwRange"
    /\ tradeParams.mm_priceWatcherSourcePolicy = "strict"

\* C9: stop mm leaves the ticks in flight, the guard and the ledger as they
\* are; no tick starts in a state where mm_isActive is false; a tick in flight
\* runs to completion.
C9_StopLetsTickFinish ==
  /\ [][/\ (tradeParams.mm_isActive /\ ~tradeParams'.mm_isActive) =>
            UNCHANGED <<chain, isPreviousIterationFinished, ordersDb>>
        /\ \A c \in Chains : BuildStarts(c) => tradeParams.mm_isActive]_vars
  /\ \A c \in Chains : (InBuild(c) /\ ~tradeParams.mm_isActive) ~> ~InBuild(c)

\* market making was stopped while a tick was sending an order
C9_Witness ==
  \E c \in Chains : chain[c].pc = "placeOrder" /\ ~tradeParams.mm_isActive

\* C10 as stated: after a failed placement the tick makes no further
\* placement attempt.
C10_NoAttemptAfterFailure ==
  \A c \in Chains :
    chain[c].failed => chain[c].pc \notin {"orderBook", "balances", "placeOrder"}

\* C10 amended: a placement that ends without an order id writes no ledger
\* row and does not count as placed; the while loop goes on with the
\* attempts that remain.
C10_FailureWritesNoRow ==
  [][\A c \in Chains :
       (/\ chain[c].pc = "placeOrder"
        /\ chain'[c].pc # "placeOrder"
        /\ chain'[c].orderBookOrdersCount = chain[c].orderBookOrdersCount) =>
         /\ ordersDb' = ordersDb
         /\ chain'[c].pc = "loop"
         /\ chain'[c].ordersToPlace = chain[c].ordersToPlace]_vars

\* a placement failed and the tick has attempts left
C10_Witness ==
  \E c \in Chains :
    /\ chain[c].failed
    /\ chain[c].pc = "loop"
    /\ chain[c].ordersToPlace > 0

C12_TickAlwaysReturns ==
  /\ [][\A c \in Chains :
          (InBuild(c) /\ ~InBuild(c)') =>
            /\ isPreviousIterationFinished'
            /\ chain'[c].pc = "timer"]_vars
  /\ \A c \in Chains :
       InBuild(c) ~> (chain[c].pc = "timer" /\ isPreviousIterationFinished)

\* a tick is about to end after a placement of it failed
C12_Witness ==
  \E c \in Chains :
    /\ chain[c].failed
    /\ chain[c].pc = "loop"
    /\ ~MorePlacements(c)

\* C13: y re-runs the pending command only when it arrives no later than
\* timeToConfirm (10 minutes) after the command became pending, and it re-runs
\* that very command; the prompt is dropped by y without a re-run only when
\* more than 10 minutes have passed; nothing is executed except by a re-run.
C13_RerunWithinTenMinutes ==
  [][/\ \A h \in Handlers :
          (handler[h].pc = "idle" /\ handler'[h].pc = "rerun") =>
            /\ pendingConfirmation.command # ""
            /\ unixTimeStampMs - pendingConfirmation.timestamp <= timeToConfirm
            /\ handler'[h].command = pendingConfirmation.command
     /\ (/\ pendingConfirmation.command # ""
         /\ pendingConfirmation'.command = ""
         /\ handler' = handler) =>
           unixTimeStampMs - pendingConfirmation.timestamp > timeToConfirm
     /\ executed' > executed => \E h \in Handlers : handler[h].pc = "rerun"]_vars

\* y arrived exactly ten minutes after the command became pending
C13_Witness ==
  \E h \in Handlers :
    /\ handler[h].pc = "rerun"
    /\ pendingConfirmation.command = handler[h].command
    /\ pendingConfirmation.timestamp = unixTimeStampMs - timeToConfirm

\* C14: what saveConfig wrote is the current tradeParams after every command
\* that changed it, and the processing of y itself never calls saveConfig.
C14_SavedExceptByY ==
  /\ savedConfig.tradeParams = tradeParams
  /\ ~savedConfig.byY

\* C15: in every adapter getOrderDetails returns the status matching the
\* order's state on the exchange (new, part-filled, filled, cancelled) and
\* unknown exactly when the exchange does not recognise the id; a cancelled
\* order is never reported as new.
C15_StatusMatchesExchange ==
  LET call == adapter.lastCall
  IN  call.op = "getOrderDetails" /\ call.output # "undefined" =>
        /\ (call.output = "unknown") <=> (call.input = "notFound")
        /\ call.input # "notFound" => call.output = call.input
        /\ call.input = "cancelled" => call.output # "new"

\* C16: placeOrder returns an order id or a rejection with a message, never
\* throws and never sends an order without a market descriptor, in every
\* state of the markets cache.
C16_PlaceOrderNeverThrowsNorSendsBlind ==
  LET call == adapter.lastCall
  IN  call.op = "placeOrder" =>
        /\ call.output \in {"orderId", "message"}
        /\ call.sent => call.descriptor

\* C17: cancelOrder(id, side, pair) of every adapter requests the cancellation
\* of the order on the market pair and reports true, false or undefined.
C17_CancelsOnThePair ==
  LET call == adapter.lastCall
  IN  call.op = "cancelOrder" =>
        /\ call.sent
        /\ call.symbol = formatPairName(adapter.name, Pair).symbol
        /\ call.output \in {"true", "false", "undefined"}

C19_FilterRespected ==
  LET params == lastCommand.params
      filters == {params[i] : i \in {k \in 1..Len(params) : IsPriceFilter(params[k])}}
      wide == \E i \in 1..Len(params) : params[i] \in {<<"all">>, <<"unk">>}
  IN  lastCommand.name = "clear" /\ filters # {} =>
        /\ \A f \in filters : \A price \in lastCommand.attempted :
             MatchesFilter([operator |-> f[1], price |-> ToNumber(f[2])], price)
        /\ wide => lastCommand.attempted = {} /\ lastCommand.reply # "logMessage"

\* C20: a fill whose free balance of the coin being spent is lower than the
\* requested amount replies "Not enough ...", places no order and registers
\* no pending confirmation.
C20_NotEnoughPlacesNothing ==
  LET in == lastCommand.input
      short == /\ in.balances
               /\ in.amount > (IF in.type = "buy" THEN in.free["coin2"]
                               ELSE in.free["coin1"])
  IN  lastCommand.name = "fill" /\ short =>
        /\ lastCommand.placements = 0
        /\ ~lastCommand.registered
        /\ in.wellFormed => lastCommand.reply = "Not enough"

C20_Witness ==
  /\ lastCommand.name = "fill"
  /\ lastCommand.reply = "Not enough"
  /\ lastCommand.input.type = "buy"
  /\ lastCommand.input.amount > lastCommand.input.free["coin2"]
  /\ lastCommand.input.amount <= lastCommand.input.free["coin1"]
  /\ lastCommand.placements = 0

\* C21 (as stated): an accepted fill with count=N low=L high=H attempts
\* exactly N order placements, each at a price within [L, H].
C21_ExactlyCountPlacements ==
  lastCommand.name = "fill" /\ lastCommand.range.count > 0 =>
    /\ lastCommand.placements = lastCommand.range.count
    /\ \A k \in 1..Len(lastCommand.orderList) :
         /\ lastCommand.range.low <= lastCommand.orderList[k].price
         /\ lastCommand.orderList[k].price <= lastCommand.range.high

\* C21 (amended): an accepted fill with count=N low=L high=H attempts at
\* least one and at most N order placements, exactly one when N is 1, each
\* at a price within [L, H].
C21_AtMostCountPlacements ==
  lastCommand.name = "fill" /\ lastCommand.range.count > 0 =>
    /\ lastCommand.placements >= 1
    /\ lastCommand.placements <= lastCommand.range.count
    /\ \A k \in 1..Len(lastCommand.orderList) :
         /\ lastCommand.range.low <= lastCommand.orderList[k].price
         /\ lastCommand.orderList[k].price <= lastCommand.range.high

C21_Witness ==
  /\ lastCommand.name = "fill"
  /\ lastCommand.range.count = MaxCount
  /\ lastCommand.range.low < lastCommand.range.high
  /\ lastCommand.placements = MaxCount
  /\ lastCommand.orderList[MaxCount].price = lastCommand.range.high

\* C22: a confirmed make price <target> now with the target outside the
\* spread places exactly one pm-order, at the target price, whose amount is
\* at least 1.05 times the depth between the spread and the target; without
\* confirmation it places no order.
C22_ConfirmedMakePlacesOne ==
  LET params == lastCommand.params
      marked == params[Len(params)] = "-y"
  IN  /\ lastCommand.name \in {"make", "y"}
      /\ Len(params) >= 4
      /\ SubSeq(params, 1, 4) \in {<<"price", t, "USDT", "now">> : t \in {"1", "3"}}
      /\ lastCommand.input.outside
      => IF marked
         THEN /\ lastCommand.placements = 1
              /\ lastCommand.orderList[1].price = ToNumber(params[2])
              /\ lastCommand.orderList[1].amount >= 105 * lastCommand.input.depth
         ELSE lastCommand.placements = 0

\* C27: the confirmation state is Idle after every execution of a command
\* with the -y marker, re-run by y or typed with -y, and after every y; a
\* following y then executes nothing.
C27_IdleAfterConfirmedRun ==
  LET params == lastCommand.params
  IN  \/ lastCommand.name = "y"
      \/ /\ lastCommand.name = "make"
         /\ params[Len(params)] = "-y"
      => pendingConfirmation.command = ""

\* C23: buypercent N accepts every N with 0 <= N <= 100 and sets the buy
\* bias to it; every other argument is rejected and leaves mm_buyPercent as
\* it was.
C23_AcceptsZeroToHundred ==
  [][lastCommand'.name = "buypercent" =>
       LET val == Number(lastCommand'.input) IN
       IF lastCommand'.input # <<>> /\ val.finite /\ 0 <= val.n /\ val.n <= 100
       THEN /\ lastCommand'.reply = "Set to make market"
            /\ tradeParams'.mm_buyPercent = val.n
       ELSE /\ lastCommand'.reply = "Invalid percentage of buy orders"
            /\ tradeParams'.mm_buyPercent = tradeParams.mm_buyPercent]_vars

\* the draws of Math.random() for which setType gives the side
DrawsOf(type) == {random \in MathRandom : setType(random) = type}

\* C24 as stated: the builder chooses buy for a fraction mm_buyPercent of
\* the uniformly distributed draws and sell for the rest.
C24_BuysForBuyPercent ==
  /\ 100 * Cardinality(DrawsOf("buy")) = tradeParams.mm_buyPercent * RandomCells
  /\ 100 * Cardinality(DrawsOf("sell")) = (100 - tradeParams.mm_buyPercent) * RandomCells

\* C24: with mm_buyPercent set, the builder chooses sell for a fraction
\* mm_buyPercent of the uniformly distributed draws and buy for the rest;
\* with mm_buyPercent 0 it chooses no side, and no placement goes beyond the
\* order book.
C24_SellsForBuyPercent ==
  IF tradeParams.mm_buyPercent = 0
  THEN /\ DrawsOf("buy") \cup DrawsOf("sell") = {}
       /\ \A c \in Chains : chain[c].pc \notin {"balances", "placeOrder"}
  ELSE /\ 100 * Cardinality(DrawsOf("sell")) = tradeParams.mm_buyPercent * RandomCells
       /\ 100 * Cardinality(DrawsOf("buy")) = (100 - tradeParams.mm_buyPercent) * RandomCells

\* with every draw a sell: the builder has drawn the side of a placement
C24_Witness ==
  /\ tradeParams.mm_buyPercent = 100
  /\ chain[1].pc = "orderBook"
  /\ chain[1].type = "sell"

\* C28: after every confirmed enable pw, whatever accepted form the
\* arguments had, mm_priceWatcherSourcePolicy is smart or strict.
C28_PolicyAfterEnablePw ==
  (lastCommand.name = "enable pw" /\ lastCommand.reply = "Price watching is enabled")
    => tradeParams.mm_priceWatcherSourcePolicy \in PW_POLICIES

\* C25: before any correction by the price watcher, the price chosen for an
\* ob-order at position k lies strictly between the prices of the book
\* orders at positions k-1 and k, at least one tick from each, whenever the
\* gap between them is at least one tick wide; otherwise it equals one of
\* the two.
C25_PriceStrictlyInsideGap ==
  lastCommand.name = "setPrice" =>
    LET in == lastCommand.input
        first == in.orderList[in.position - 1]
        second == in.orderList[in.position]
        low == Min(first, second)
        high == first + second - low
    IN  IF high - low >= precision
        THEN /\ low + precision <= in.price
             /\ in.price <= high - precision
        ELSE in.price \in {low, high}

\* the replies that report an error of validation of the arguments
ValidationErrors ==
  {"Invalid percentage of buy orders", "Invalid values", "Invalid intervals",
   "Invalid time unit", "Value to must be greater or equal", "Indicate trade type",
   "Wrong market making policy", "Indicate option", "Set correct ob-order count",
   "Set correct max ob-order amount percent", "Wrong price source",
   "Set a deviation in percentage", "Set correct deviation in percentage",
   "Wrong deviation policy", "Wrong Pw action", "Set a price range or value",
   "Incorrect currency"}

\* C29: enable, amount, interval, buypercent and start leave every field of
\* tradeParams as it was when they answer with an error of validation.
C29_ErrorLeavesTradeParams ==
  [][(lastCommand'.name \in {"enable", "enable pw", "amount", "interval", "buypercent", "start"}
      /\ lastCommand'.reply \in ValidationErrors)
       => tradeParams' = tradeParams]_vars

\* C26: all reads of tradeParams in one tick of the builder see the same
\* parameters: each test of the while loop finds mm_orderBookOrdersCount as
\* the first test of the tick found it, whatever commands ran while the tick
\* waited.
C26_OneSnapshotPerTick ==
  [][\A c \in Chains :
       (/\ chain[c].pc = "loop"
        /\ chain'[c].pc # "loop"
        /\ chain[c].ordersToPlace > 0
        /\ chain[c].limitRead # 0)
         => tradeParams.mm_orderBookOrdersCount = chain[c].limitRead]_vars

\* C30: the list closeOrderBookOrders returns holds every order it was given
\* except exactly those whose cancel request was processed: when its for
\* loop has ended, an order of the input is in the list if and only if it is
\* still open, also after a call of the collector that threw.
C30_OpenOrdersStayListed ==
  \A c \in Chains :
    (chain[c].pc = "close" /\ chain[c].idx > Len(chain[c].orderBookOrders))
      => \A id \in SeqRange(chain[c].orderBookOrders) :
           id \in SeqRange(chain[c].updatedObOrders) <=> id \in OpenIds

TypeOK ==
  /\ isPreviousIterationFinished \in BOOLEAN
  /\ Len(ordersDb) <= MaxOrders
  /\ \A c \in Chains : chain[c].pc \in BuildPcs \cup {"none", "timer"}

====
